---- MODULE Spec2Model ----
(***************************************************************************)
(* Email-sequence engine: scheduler (ScheduleGenerator), schedule sweeper  *)
(* (ScheduleProcessor), sequence processor, control API and the inbound    *)
(* Gmail event pipeline.                                                   *)
(*                                                                         *)
(* Time is an integer number of minutes since a Monday 00:00 UTC.  An      *)
(* optional value (a nullable column, an undefined argument) is a sequence *)
(* of length 0 or 1.  A timezone is its offset from UTC in minutes.        *)
(***************************************************************************)
EXTENDS Integers, Sequences, FiniteSets, TLC

None == << >>
Some(x) == << x >>
Max(a, b) == IF a >= b THEN a ELSE b
Min(a, b) == IF a <= b THEN a ELSE b

\* ------------------------------------------------------------------ bounds
\* Number of sample points taken from the range of one Math.random() draw.
RandSamples == 2

\* ------------------------------------------------------- program constants
DEFAULT_DELAY == 30
DISTRIBUTION_WINDOW == 15
MAX_EMAILS_PER_MINUTE == 50
MAX_EMAILS_PER_HOUR == 1000
maxIterations == 14
maxAttempts == 5
DEMO_DELAY_CAP == 480

StepTypeEnum == [WAIT |-> "WAIT", MANUAL_EMAIL |-> "MANUAL_EMAIL",
                 AUTOMATED_EMAIL |-> "AUTOMATED_EMAIL"]
TimingType == [IMMEDIATE |-> "immediate", DELAY |-> "delay"]

\* String.prototype.toUpperCase on the step types the store holds.
toUpperCase(s) ==
    CASE s = "wait" -> "WAIT"
      [] s = "manual_email" -> "MANUAL_EMAIL"
      [] s = "automated_email" -> "AUTOMATED_EMAIL"
      [] OTHER -> s

\* Math.floor(Math.random() * n): every integer of 0..n-1 for n > 0, sampled
\* at RandSamples evenly spread points that include both ends.
RandomFloor(n) ==
    IF n > 0
    THEN {((n - 1) * k) \div (RandSamples - 1) : k \in 0..(RandSamples - 1)}
    ELSE IF n = 0 THEN {0}
    ELSE {0 - (((0 - n) * k) \div (RandSamples - 1)) : k \in 0..(RandSamples - 1)}

\* ---------------------------------------------------------------- calendar
\* luxon: DateTime.setZone / toUTC, weekday (1 = Monday .. 7 = Sunday),
\* hasSame(.., "day"), startOf("day"), set({hour, minute}).
setZone(utc, zone) == utc + zone
toUTC(local, zone) == local - zone
dayOf(local) == local \div (24 * 60)
minuteOfDay(local) == local % (24 * 60)
weekday(local) == (dayOf(local) % 7) + 1
startOfDay(local) == dayOf(local) * (24 * 60)
setHourMinute(local, hm) == startOfDay(local) + hm.hour * 60 + hm.minute

\* ------------------------------------------------------- ScheduleGenerator
convertToMinutes(amount, unit) ==
    CASE unit = "minutes" -> amount
      [] unit = "hours" -> amount * 60
      [] unit = "days" -> amount * 24 * 60
      [] OTHER -> 60

\* delayAmount 0 and delayUnit "" stand for an absent (falsy) value.
calculateBaseDelay(step, isDemoMode) ==
    LET type == toUpperCase(step.stepType)
        delay ==
            CASE type = StepTypeEnum.WAIT ->
                    IF step.delayAmount = 0 \/ step.delayUnit = ""
                    THEN DEFAULT_DELAY
                    ELSE convertToMinutes(step.delayAmount, step.delayUnit)
              [] type \in {StepTypeEnum.MANUAL_EMAIL, StepTypeEnum.AUTOMATED_EMAIL} ->
                    IF step.timing = TimingType.IMMEDIATE THEN 0
                    ELSE IF step.timing = TimingType.DELAY /\ step.delayAmount # 0
                         THEN step.delayAmount
                         ELSE DEFAULT_DELAY
              [] OTHER -> DEFAULT_DELAY
        floored == IF delay > DEFAULT_DELAY THEN Max(delay, DEFAULT_DELAY) ELSE delay
    IN  IF isDemoMode THEN Min(floored, DEMO_DELAY_CAP) ELSE floored

isHoliday(dt, businessHours) == dayOf(dt) \in businessHours.holidays
isWorkDay(dt, businessHours) == (weekday(dt) % 7) \in businessHours.workDays

\* demo is the process-wide DEMO_MODE flag.
isValidBusinessTime(dt, businessHours, demo) ==
    IF demo THEN TRUE
    ELSE LET dayStart == setHourMinute(dt, businessHours.workHoursStart)
             dayEnd == setHourMinute(dt, businessHours.workHoursEnd)
         IN  /\ ~isHoliday(dt, businessHours)
             /\ isWorkDay(dt, businessHours)
             /\ dt >= dayStart /\ dt <= dayEnd

RECURSIVE nextBusinessStartLoop(_, _, _)
nextBusinessStartLoop(candidate, iteration, businessHours) ==
    IF iteration >= maxIterations THEN candidate
    ELSE IF ~isHoliday(candidate, businessHours) /\ isWorkDay(candidate, businessHours)
         THEN candidate
         ELSE nextBusinessStartLoop(
                  setHourMinute(candidate + 24 * 60, businessHours.workHoursStart),
                  iteration + 1, businessHours)

nextBusinessStart(date, businessHours) ==
    nextBusinessStartLoop(setHourMinute(date, businessHours.workHoursStart),
                          0, businessHours)

RECURSIVE adjustLoop(_, _, _, _)
adjustLoop(result, iteration, businessHours, demo) ==
    IF isValidBusinessTime(result, businessHours, demo) \/ iteration >= maxIterations
    THEN result
    ELSE LET dayStart == setHourMinute(result, businessHours.workHoursStart)
             dayEnd == setHourMinute(result, businessHours.workHoursEnd)
         IN  IF \/ ~isWorkDay(result, businessHours)
                \/ isHoliday(result, businessHours)
                \/ result < dayStart
             THEN adjustLoop(nextBusinessStart(result, businessHours),
                             iteration + 1, businessHours, demo)
             ELSE IF result > dayEnd
                  THEN adjustLoop(nextBusinessStart(result + 24 * 60, businessHours),
                                  iteration + 1, businessHours, demo)
                  ELSE adjustLoop(result, iteration + 1, businessHours, demo)

\* The set of instants adjustToBusinessHours can return, one per outcome of
\* the intraday distribution draw (seconds and milliseconds are below the
\* model's resolution).
adjustToBusinessHours(date, businessHours, demo) ==
    IF demo THEN {date}
    ELSE LET result == adjustLoop(date, 0, businessHours, demo)
             businessDayMinutes ==
                 (businessHours.workHoursEnd.hour * 60 + businessHours.workHoursEnd.minute)
                 - (businessHours.workHoursStart.hour * 60
                    + businessHours.workHoursStart.minute)
         IN  {setHourMinute(result, businessHours.workHoursStart) + distributionMinutes :
                 distributionMinutes \in RandomFloor(businessDayMinutes)}

\* scheduled is the nextScheduledAt column as a set of [id, at, n] entries:
\* n rows (n = 1 for one SequenceContact row) hold instant at.
RECURSIVE countScheduled(_, _, _)
countScheduled(scheduled, gte, lt) ==
    IF scheduled = {} THEN 0
    ELSE LET e == CHOOSE x \in scheduled : TRUE
         IN  (IF e.at >= gte /\ e.at < lt THEN e.n ELSE 0)
             + countScheduled(scheduled \ {e}, gte, lt)

checkTimeSlotAvailability(dateTime, scheduled) ==
    [minuteAvailable |->
        countScheduled(scheduled, dateTime - 1, dateTime + 1) < MAX_EMAILS_PER_MINUTE,
     hourAvailable |->
        countScheduled(scheduled, dateTime - 60, dateTime + 60) < MAX_EMAILS_PER_HOUR]

RECURSIVE rateWindowLoop(_, _, _, _, _)
rateWindowLoop(localTarget, attempts, businessHours, scheduled, demo) ==
    IF attempts >= maxAttempts THEN {localTarget}
    ELSE LET avail == checkTimeSlotAvailability(
                          toUTC(localTarget, businessHours.timezone), scheduled)
         IN  IF avail.minuteAvailable /\ avail.hourAvailable THEN {localTarget}
             ELSE LET afterMinute ==
                          IF ~avail.minuteAvailable
                          THEN {localTarget + d : d \in RandomFloor(DISTRIBUTION_WINDOW)}
                          ELSE {localTarget}
                      afterHour ==
                          IF ~avail.hourAvailable
                          THEN {(t + 60) - ((t + 60) % 60) + m :
                                   t \in afterMinute, m \in RandomFloor(60)}
                          ELSE afterMinute
                      revalidated ==
                          {IF ~isValidBusinessTime(t, businessHours, demo)
                           THEN nextBusinessStart(t, businessHours)
                           ELSE t : t \in afterHour}
                  IN  UNION {rateWindowLoop(t, attempts + 1, businessHours,
                                            scheduled, demo) : t \in revalidated}

\* The set of instants calculateNextRun can resolve to.  step and
\* businessHours are optional values; reading a field of an undefined step
\* throws inside the try block and the catch returns currentTime + 1 hour.
calculateNextRun(currentTime, step, businessHours, isDemoMode, scheduled, demo) ==
    IF step = None THEN {currentTime + 60}
    ELSE LET baseDelayMinutes == calculateBaseDelay(step[1], isDemoMode)
             targetTime == currentTime + baseDelayMinutes
         IN  IF businessHours = None THEN {targetTime}
             ELSE LET bh == businessHours[1]
                  IN  {toUTC(final, bh.timezone) :
                          final \in UNION {rateWindowLoop(adjusted, 0, bh, scheduled, demo) :
                              adjusted \in adjustToBusinessHours(
                                  setZone(targetTime, bh.timezone), bh, demo)}}

\* ------------------------------------------------------------ system state
VARIABLES
    now,           \* the wall clock (new Date())
    sequence,      \* the Sequence row: status, testMode, steps, businessHours
    rows,          \* SequenceContact rows, by contactId
    sequenceJobs,  \* number of sequence jobs waiting in the sequence queue
    launches,      \* launch requests accepted so far
    batch,         \* per sweeper execution: the dueEmails still to process
    emailJobs,     \* every email job added to the email queue, in order
    jobsDone,      \* the positions in emailJobs the email worker has taken
    tracking,      \* the EmailTracking rows of the sequence
    threads,       \* contacts that have an EmailThread row
    emailEvent,    \* EmailEvent rows: per contact and type, how many
    stats,         \* SequenceStats counters of the sequence
    history,       \* the mailbox: messages arrived, push notifications delivered
    handler,       \* per POST handler: the message it is in the middle of
    schedIn,       \* scheduler harness: the arguments of one calculateNextRun call
    schedOut,      \* scheduler harness: the instant that call resolved to
    proc,          \* the sequence job SequenceProcessor.process is in the middle of
    track,         \* the web app's tracking tables: links, clicks, opens
    monitoring,    \* whether the monitoring service watches the sequence
    response,      \* the HTTP response the last request was answered with
    location,      \* the Location header of that response, if it has one
    oauth2Client,  \* the credentials the process-wide OAuth2 client holds
    request,       \* per user: the request that is making its Gmail client
    outbox         \* the messages Gmail has accepted for delivery, in order

vars == << now, sequence, rows, sequenceJobs, launches, batch, emailJobs,
           jobsDone, tracking, threads, emailEvent, stats, history, handler,
           schedIn, schedOut, proc, track, monitoring, response, location,
           oauth2Client, request, outbox >>

\* ------------------------------------------------------------ model bounds
NumContacts == 2
NumWorkers == 2
NumHandlers == 2
MaxJobs == 4
MaxClicks == 2
MaxOpens == 2
MaxRecording == 2
MaxLaunches == 1
MaxPushes == 2
\* The clock stops advancing this many minutes after the initial instant.
MaxElapsed == 60

Contacts == 1..NumContacts
Workers == 1..NumWorkers
Handlers == 1..NumHandlers
Users == {"owner", "other"}

\* Monday 16:30 UTC of the second week.
StartInstant == 7 * 24 * 60 + 16 * 60 + 30
RETRY_DELAY == 5

getDefaultBusinessHours ==
    [timezone |-> 0, workDays |-> {1, 2, 3, 4, 5},
     workHoursStart |-> [hour |-> 9, minute |-> 0],
     workHoursEnd |-> [hour |-> 17, minute |-> 0],
     holidays |-> {}]

\* A SequenceStep row.
Step(order, stepType, timing, delayAmount, delayUnit, replyToThread) ==
    [order |-> order, stepType |-> stepType, timing |-> timing,
     delayAmount |-> delayAmount, delayUnit |-> delayUnit,
     replyToThread |-> replyToThread]

\* The step lists a sequence starts with, ordered by "order"; base is the
\* order of the first step (the step-creation API numbers from 1).
StepLists(base) ==
    { << Step(base, "manual_email", "immediate", 0, "", FALSE) >>,
      << Step(base, "manual_email", "immediate", 0, "", FALSE),
         Step(base + 1, "automated_email", "delay", 2, "days", TRUE) >>,
      << Step(base, "manual_email", "immediate", 0, "", FALSE),
         Step(base + 1, "automated_email", "delay", 2, "days", TRUE),
         Step(base + 2, "wait", "delay", 1, "minutes", FALSE) >> }

\* A SequenceContact row as the schema's defaults create it.
NewRow ==
    [status |-> "not_sent", currentStep |-> 0, nextScheduledAt |-> None,
     completed |-> FALSE, completedAt |-> None, lastProcessedAt |-> None,
     threadId |-> None]

\* The TrackedLink rows of the web app: link 1 belongs to the tracking row
\* with hash "h1", link 2 to the one with hash "h2".
LinkIds == {1, 2}
TrackingHashes == {"h1", "h2"}
linkHash(l) == IF l = 1 THEN "h1" ELSE "h2"

\* No click recorded: per link, its clickCount and its LinkClick rows.
NoTrack == [clickCount |-> [l \in LinkIds |-> 0],
            linkClick |-> [l \in LinkIds |-> 0],
            clickedEmails |-> 0,
            openCount |-> [h \in TrackingHashes |-> 0],
            openedAt |-> [h \in TrackingHashes |-> << >>],
            openedAtWrites |-> [h \in TrackingHashes |-> 0],
            opened |-> [h \in TrackingHashes |-> 0],
            openedEmails |-> 0,
            uniqueOpens |-> 0,
            recording |-> [h \in TrackingHashes |-> 0],
            counted |-> [h \in TrackingHashes |-> 0]]

NoStats == [sent |-> 0, replied |-> 0, bounced |-> 0]
NoEvents == [sent |-> 0, replied |-> 0, bounced |-> 0]


\* The nextScheduledAt column, as checkTimeSlotAvailability counts it.
scheduledColumn ==
    {[id |-> c, at |-> rows[c].nextScheduledAt[1], n |-> 1] :
        c \in {x \in Contacts : rows[x].nextScheduledAt # None}}

\* The elements of a set of contacts in ascending order.
RECURSIVE Ascending(_)
Ascending(S) ==
    IF S = {} THEN << >>
    ELSE LET m == CHOOSE x \in S : \A y \in S : x <= y
         IN  << m >> \o Ascending(S \ {m})

\* The users whose requests share the server process.
AuthUsers == {"A", "B"}

\* The credentials an OAuth2 client holds: each token is absent or names
\* the account it was issued for.
Credentials(access_token, refresh_token) ==
    [access_token |-> access_token, refresh_token |-> refresh_token]
NoCredentials == Credentials(None, None)

\* A request that has not started.  attempt is refreshAccessToken's counter
\* of failed attempts, tries the calls it made at the token endpoint, slept
\* the delays it waited, result the access token it returned, calls the
\* accounts the request's Gmail calls acted on.
NoRequest ==
    [pc |-> "idle", attempt |-> 0, tries |-> 0, slept |-> << >>,
     result |-> None, calls |-> << >>]

InitSystem ==
    /\ now = StartInstant
    /\ \E base \in {0, 1} : \E steps \in StepLists(base) :
       \E bh \in {None, Some(getDefaultBusinessHours)} :
          sequence = [status |-> "draft", testMode |-> FALSE, steps |-> steps,
                      businessHours |-> bh]
    /\ rows = [c \in Contacts |-> NewRow]
    /\ sequenceJobs = << >>
    /\ launches = 0
    /\ batch = [w \in Workers |-> << >>]
    /\ emailJobs = << >>
    /\ jobsDone = {}
    /\ tracking = {}
    /\ threads = {}
    /\ emailEvent = [c \in Contacts |-> NoEvents]
    /\ stats = NoStats
    /\ history = [arrived |-> {}, pushes |-> 0, watchHistoryId |-> 0]
    /\ handler = [h \in Handlers |-> None]
    /\ proc = None
    /\ track = NoTrack
    /\ monitoring = FALSE
    /\ response = None
    /\ location = None
    /\ oauth2Client = NoCredentials
    /\ request = [u \in AuthUsers |-> NoRequest]
    /\ outbox = << >>

schedIdle == schedIn = None /\ schedOut = None

Init == InitSystem /\ schedIdle

\* --------------------------------------------------------------- the clock
\* Time passes to the next instant at which a row or a deferred job is due.
dueInstants ==
    {rows[c].nextScheduledAt[1] : c \in {x \in Contacts : rows[x].nextScheduledAt # None}}
    \cup {emailJobs[i].scheduledTime : i \in (1..Len(emailJobs)) \ jobsDone}

Advance ==
    /\ \E t \in dueInstants :
          /\ t > now /\ t <= StartInstant + MaxElapsed
          /\ now' = t
    /\ UNCHANGED << sequence, rows, sequenceJobs, launches, batch, emailJobs,
                    jobsDone, tracking, threads, emailEvent, stats, history,
                    handler, schedIn, schedOut,
                    proc, track, location, monitoring, response,
                    oauth2Client, request, outbox >>

\* ------------------------------------------------------------- control API
activeContacts == {c \in Contacts : rows[c].status \notin {"completed", "opted_out"}}

\* findUnique({id, userId}): the sequence, when userId owns it.
ownedByAnyone(userId) == TRUE
ownedBy(userId) == userId = "owner"

\* launchSequence with the zero-contacts test left out.
launchSequenceStatusNoContactsTest(userId) ==
    IF ~ownedBy(userId) THEN 404
    ELSE IF Len(sequence.steps) = 0 THEN 400
    ELSE 200

\* The HTTP status launchSequence answers with.
launchSequenceStatus(userId) ==
    IF ~ownedBy(userId) THEN 404
    ELSE IF Len(sequence.steps) = 0 THEN 400
    ELSE IF activeContacts = {} THEN 400
    ELSE 200

\* What launchSequence writes once the request has passed its tests.
launchSequenceWrites(testMode) ==
    /\ sequence' = [sequence EXCEPT !.status = "active", !.testMode = testMode]
    /\ sequenceJobs' = Append(sequenceJobs,
                            [testMode |-> testMode, attemptsMade |-> 0])
    /\ launches' = launches + 1
    /\ monitoring' = TRUE

\* A launch request that passes the handler's tests (one that does not
\* changes nothing).
launchSequence(userId, testMode) ==
    /\ launchSequenceStatus(userId) = 200
    /\ launches < MaxLaunches
    /\ launchSequenceWrites(testMode)
    /\ UNCHANGED << now, rows, batch, emailJobs, jobsDone, tracking, threads,
                    emailEvent, stats, history, handler, schedIn, schedOut,
                    proc, track, location, response,
                    oauth2Client, request, outbox >>

pauseSequence(userId) ==
    /\ ownedBy(userId)
    /\ sequence' = [sequence EXCEPT !.status = "paused"]
    /\ monitoring' = FALSE
    /\ UNCHANGED << now, rows, sequenceJobs, launches, batch, emailJobs,
                    jobsDone, tracking, threads, emailEvent, stats, history,
                    handler, schedIn, schedOut,
                    proc, track, location, response,
                    oauth2Client, request, outbox >>

resumeSequence(userId) ==
    /\ ownedBy(userId)
    /\ sequence' = [sequence EXCEPT !.status = "active"]
    /\ monitoring' = TRUE
    /\ UNCHANGED << now, rows, sequenceJobs, launches, batch, emailJobs,
                    jobsDone, tracking, threads, emailEvent, stats, history,
                    handler, schedIn, schedOut,
                    proc, track, location, response,
                    oauth2Client, request, outbox >>

\* helper.resetSequence: the sequence's tracking rows, events and stats are
\* deleted and every SequenceContact row is rewritten.
resetSequence ==
    /\ tracking' = {}
    /\ emailEvent' = [c \in Contacts |-> NoEvents]
    /\ rows' = [c \in Contacts |->
                  [rows[c] EXCEPT !.status = "pending", !.lastProcessedAt = None,
                                  !.completedAt = None, !.threadId = None,
                                  !.currentStep = 0, !.nextScheduledAt = None,
                                  !.completed = FALSE]]
    /\ stats' = NoStats

resetSequenceHandler(userId) ==
    /\ ownedBy(userId)
    /\ monitoring' = FALSE
    /\ resetSequence
    /\ sequence' = [sequence EXCEPT !.status = "draft", !.testMode = FALSE]
    /\ UNCHANGED << now, sequenceJobs, launches, batch, emailJobs, jobsDone,
                    threads, history, handler, schedIn, schedOut,
                    proc, track, location, response,
                    oauth2Client, request, outbox >>

\* The same four handlers together with the answer the client gets.
launchSequenceAnswered(userId, testMode) ==
    /\ response' = Some(launchSequenceStatus(userId))
    /\ IF launchSequenceStatus(userId) = 200
       THEN /\ launches < MaxLaunches
            /\ launchSequenceWrites(testMode)
       ELSE UNCHANGED << sequence, sequenceJobs, launches, monitoring >>
    /\ UNCHANGED << now, rows, batch, emailJobs, jobsDone, tracking, threads,
                    emailEvent, stats, history, handler, schedIn, schedOut,
                    proc, track, location,
                    oauth2Client, request, outbox >>

pauseSequenceAnswered(userId) ==
    /\ response' = Some(IF ownedBy(userId) THEN 200 ELSE 404)
    /\ IF ownedBy(userId)
       THEN /\ sequence' = [sequence EXCEPT !.status = "paused"]
            /\ monitoring' = FALSE
       ELSE UNCHANGED << sequence, monitoring >>
    /\ UNCHANGED << now, rows, sequenceJobs, launches, batch, emailJobs,
                    jobsDone, tracking, threads, emailEvent, stats, history,
                    handler, schedIn, schedOut, proc, track, location,
                    oauth2Client, request, outbox >>

resumeSequenceAnswered(userId) ==
    /\ response' = Some(IF ownedBy(userId) THEN 200 ELSE 404)
    /\ IF ownedBy(userId)
       THEN /\ sequence' = [sequence EXCEPT !.status = "active"]
            /\ monitoring' = TRUE
       ELSE UNCHANGED << sequence, monitoring >>
    /\ UNCHANGED << now, rows, sequenceJobs, launches, batch, emailJobs,
                    jobsDone, tracking, threads, emailEvent, stats, history,
                    handler, schedIn, schedOut, proc, track, location,
                    oauth2Client, request, outbox >>

resetSequenceAnswered(userId) ==
    /\ response' = Some(IF ownedBy(userId) THEN 200 ELSE 404)
    /\ IF ownedBy(userId)
       THEN /\ monitoring' = FALSE
            /\ resetSequence
            /\ sequence' = [sequence EXCEPT !.status = "draft", !.testMode = FALSE]
       ELSE UNCHANGED << sequence, monitoring, rows, tracking, emailEvent, stats >>
    /\ UNCHANGED << now, sequenceJobs, launches, batch, emailJobs, jobsDone,
                    threads, history, handler, schedIn, schedOut, proc, track, location,
                    oauth2Client, request, outbox >>

\* ------------------------------------------------- sequence helper (queue)
\* helper.updateSequenceContactStatus: prisma update of the row keyed by
\* (sequenceId, contactId); data overrides the fields it names.
updateSequenceContactStatus(rs, contactId, status, date) ==
    [rs EXCEPT ![contactId] =
        [@ EXCEPT !.status = status,
                  !.completed = (status = "completed"),
                  !.completedAt = IF status = "completed" THEN Some(date) ELSE None,
                  !.lastProcessedAt = Some(date)]]

\* helper.updateSequenceContactProgress: the update arm of the upsert.
updateSequenceContactProgress(rs, contactId, currentStepIndex, nextScheduledAt, date) ==
    [rs EXCEPT ![contactId] =
        [@ EXCEPT !.currentStep = currentStepIndex,
                  !.lastProcessedAt = Some(date),
                  !.nextScheduledAt = Some(nextScheduledAt)]]

\* helper.getActiveSequenceContacts, in ascending contact order.
getActiveSequenceContacts ==
    Ascending({c \in Contacts : rows[c].status \notin {"completed", "opted_out"}})

\* An email job as the queue holds it.  step is the index of the step whose
\* id the job carries; delayed tells whether the queue defers it to
\* scheduledTime.
EmailJob(contactId, step, to, threadId, testMode, scheduledTime, delayed, by) ==
    [contactId |-> contactId, step |-> step, to |-> to, threadId |-> threadId,
     testMode |-> testMode, scheduledTime |-> scheduledTime,
     delayed |-> delayed, by |-> by]

\* ------------------------------------------------------ SequenceProcessor
\* The sequence queue gives a job `attempts` tries: a job whose processor
\* throws goes back to the queue until it has been tried that often.
attempts == 3

\* The contact loop of process().  rs and jobs are the SequenceContact rows
\* and the email queue as the loop has left them so far; the result is the
\* set of outcomes the loop can end in.  calculateNextRun is given the step
\* after the current one (undefined for the last step) and the sequence's
\* business hours or the default ones; its call stands for the instant it
\* resolves to.  The rate limiter's verdict comes from the counter store.
RECURSIVE contactLoop(_, _, _, _)
contactLoop(contacts, rs, jobs, testMode) ==
    IF contacts = << >> THEN {[rows |-> rs, emailJobs |-> jobs, threw |-> FALSE]}
    ELSE
    LET sequenceContact == Head(contacts)
        contactId == sequenceContact.contactId
        currentStepIndex == rs[contactId].currentStep
        steps == sequence.steps
        nextStep == IF currentStepIndex + 1 < Len(steps)
                    THEN Some(steps[currentStepIndex + 2]) ELSE None
        businessHours == IF sequence.businessHours # None
                         THEN sequence.businessHours
                         ELSE Some(getDefaultBusinessHours)
        scheduled == {[id |-> c, at |-> rs[c].nextScheduledAt[1], n |-> 1] :
                         c \in {x \in Contacts : rs[x].nextScheduledAt # None}}
    IN  \* rate limit exceeded: continue
        contactLoop(Tail(contacts), rs, jobs, testMode)
        \cup
        (IF currentStepIndex >= Len(steps)
         \* updateSequenceContactStatus is called with the row's id in place
         \* of the contact's id: no row has that key, the update throws and
         \* process() rethrows.
         THEN {[rows |-> rs, emailJobs |-> jobs, threw |-> TRUE]}
         ELSE UNION {
                contactLoop(Tail(contacts),
                    updateSequenceContactStatus(
                        updateSequenceContactProgress(
                            rs, contactId, currentStepIndex + 1, nextSendTime, now),
                        contactId, "scheduled", now),
                    Append(jobs,
                        EmailJob(contactId, currentStepIndex,
                                 IF testMode THEN "test" ELSE "contact",
                                 sequenceContact.threadId, testMode,
                                 nextSendTime, TRUE, "processor")),
                    testMode) :
                nextSendTime \in calculateNextRun(now, nextStep, businessHours,
                                                  FALSE, scheduled, FALSE)})

\* SequenceProcessor.process for the sequence job at the head of the queue.
process ==
    /\ sequenceJobs # << >>
    /\ Len(emailJobs) + Len(getActiveSequenceContacts) <= MaxJobs
    /\ \E allowed \in BOOLEAN :
          IF ~allowed
          THEN /\ UNCHANGED << rows, emailJobs >>
               /\ sequenceJobs' = Tail(sequenceJobs)
          ELSE \E out \in contactLoop(
                     [i \in 1..Len(getActiveSequenceContacts) |->
                         [contactId |-> getActiveSequenceContacts[i],
                          threadId |-> rows[getActiveSequenceContacts[i]].threadId]],
                     rows, emailJobs, Head(sequenceJobs).testMode) :
                  /\ rows' = out.rows
                  /\ emailJobs' = out.emailJobs
                  \* a job that threw is tried again, `attempts` times in all
                  /\ sequenceJobs' =
                        IF out.threw /\ Head(sequenceJobs).attemptsMade + 1 < attempts
                        THEN Append(Tail(sequenceJobs),
                                [Head(sequenceJobs) EXCEPT !.attemptsMade = @ + 1])
                        ELSE Tail(sequenceJobs)
    /\ UNCHANGED << now, sequence, launches, batch, jobsDone, tracking, threads,
                    emailEvent, stats, history, handler, schedIn, schedOut,
                    proc, track, location, monitoring, response,
                    oauth2Client, request, outbox >>

\* ---------------------------------- SequenceProcessor, one await at a time
\* The contact loop moves on to the next contact, or process() returns.
nextContact(p) ==
    IF Len(p.contacts) > 1
    THEN Some([p EXCEPT !.contacts = Tail(@), !.pc = "progress"])
    ELSE None

\* process() is given the job at the head of the queue: the job's rate
\* limit is checked, the sequence and its active contacts are read.
processStart ==
    /\ proc = None
    /\ sequenceJobs # << >>
    /\ sequenceJobs' = Tail(sequenceJobs)
    /\ \E allowed \in BOOLEAN :
          proc' = IF allowed /\ getActiveSequenceContacts # << >>
                  THEN Some([job |-> Head(sequenceJobs),
                             contacts |->
                                 [i \in 1..Len(getActiveSequenceContacts) |->
                                     [contactId |-> getActiveSequenceContacts[i],
                                      threadId |->
                                          rows[getActiveSequenceContacts[i]].threadId]],
                             pc |-> "progress",
                             currentStepIndex |-> 0])
                  ELSE None
    /\ UNCHANGED << now, sequence, rows, launches, batch, emailJobs, jobsDone,
                    tracking, threads, emailEvent, stats, history, handler,
                    schedIn, schedOut, track, location,
                    monitoring, response,
                    oauth2Client, request, outbox >>

\* The contact's rate limit is checked and getContactProgress reads the row.
\* A contact past the last step makes updateSequenceContactStatus throw (it
\* is given the row's id in place of the contact's id) and the job fails.
processContact ==
    /\ proc # None
    /\ proc[1].pc = "progress"
    /\ LET p == proc[1]
           contactId == Head(p.contacts).contactId
           currentStepIndex == rows[contactId].currentStep
       IN  \E allowed \in BOOLEAN :
             IF ~allowed
             THEN proc' = nextContact(p) /\ sequenceJobs' = sequenceJobs
             ELSE IF currentStepIndex >= Len(sequence.steps)
                  THEN /\ proc' = None
                       /\ sequenceJobs' =
                             IF p.job.attemptsMade + 1 < attempts
                             THEN Append(sequenceJobs,
                                     [p.job EXCEPT !.attemptsMade = @ + 1])
                             ELSE sequenceJobs
                  ELSE /\ proc' = Some([p EXCEPT !.pc = "schedule",
                                          !.currentStepIndex = currentStepIndex])
                       /\ sequenceJobs' = sequenceJobs
    /\ UNCHANGED << now, sequence, rows, launches, batch, emailJobs, jobsDone,
                    tracking, threads, emailEvent, stats, history, handler,
                    schedIn, schedOut, track, location,
                    monitoring, response,
                    oauth2Client, request, outbox >>

\* The send time is computed from the step after the current one, the email
\* job is added to the queue and updateSequenceContactProgress writes the
\* row.
processSchedule ==
    /\ proc # None
    /\ proc[1].pc = "schedule"
    /\ Len(emailJobs) < MaxJobs
    /\ LET p == proc[1]
           sequenceContact == Head(p.contacts)
           contactId == sequenceContact.contactId
           currentStepIndex == p.currentStepIndex
           steps == sequence.steps
           nextStep == IF currentStepIndex + 1 < Len(steps)
                       THEN Some(steps[currentStepIndex + 2]) ELSE None
           businessHours == IF sequence.businessHours # None
                            THEN sequence.businessHours
                            ELSE Some(getDefaultBusinessHours)
       IN  \E nextSendTime \in calculateNextRun(now, nextStep, businessHours,
                                               FALSE, scheduledColumn, FALSE) :
              /\ emailJobs' = Append(emailJobs,
                    EmailJob(contactId, currentStepIndex,
                             IF p.job.testMode THEN "test" ELSE "contact",
                             sequenceContact.threadId, p.job.testMode,
                             nextSendTime, TRUE, "processor"))
              /\ rows' = updateSequenceContactProgress(
                             rows, contactId, currentStepIndex + 1, nextSendTime, now)
    /\ proc' = Some([proc[1] EXCEPT !.pc = "status"])
    /\ UNCHANGED << now, sequence, sequenceJobs, launches, batch, jobsDone,
                    tracking, threads, emailEvent, stats, history, handler,
                    schedIn, schedOut, track, location,
                    monitoring, response,
                    oauth2Client, request, outbox >>

\* updateSequenceContactStatus(.., SCHEDULED) writes the row and the loop
\* goes on.
processStatus ==
    /\ proc # None
    /\ proc[1].pc = "status"
    /\ rows' = updateSequenceContactStatus(
                   rows, Head(proc[1].contacts).contactId, "scheduled", now)
    /\ proc' = nextContact(proc[1])
    /\ UNCHANGED << now, sequence, sequenceJobs, launches, batch, emailJobs,
                    jobsDone, tracking, threads, emailEvent, stats, history,
                    handler, schedIn, schedOut, track, location,
                    monitoring, response,
                    oauth2Client, request, outbox >>

\* An awaited call of the contact loop rejects: the queue (queue.add), the
\* database (updateSequenceContactProgress, updateSequenceContactStatus) or
\* the rate limiter (incrementCounters).  The loop has no try block of its
\* own: what ran before the failing call has taken effect, the exception
\* leaves the loop, the catch of process() logs and rethrows it, and the
\* queue tries the job again, `attempts` times in all.
ProcessFaults ==
    {"queue.add", "updateSequenceContactProgress",
     "updateSequenceContactStatus", "incrementCounters"}

processFault(fault) ==
    /\ proc # None
    /\ proc[1].pc = IF fault \in {"queue.add", "updateSequenceContactProgress"}
                    THEN "schedule" ELSE "status"
    /\ LET p == proc[1]
           sequenceContact == Head(p.contacts)
           contactId == sequenceContact.contactId
           currentStepIndex == p.currentStepIndex
           steps == sequence.steps
           nextStep == IF currentStepIndex + 1 < Len(steps)
                       THEN Some(steps[currentStepIndex + 2]) ELSE None
           businessHours == IF sequence.businessHours # None
                            THEN sequence.businessHours
                            ELSE Some(getDefaultBusinessHours)
       IN  /\ IF fault = "updateSequenceContactProgress"
              THEN /\ Len(emailJobs) < MaxJobs
                   /\ \E nextSendTime \in calculateNextRun(now, nextStep,
                                             businessHours, FALSE,
                                             scheduledColumn, FALSE) :
                         emailJobs' = Append(emailJobs,
                            EmailJob(contactId, currentStepIndex,
                                     IF p.job.testMode THEN "test" ELSE "contact",
                                     sequenceContact.threadId, p.job.testMode,
                                     nextSendTime, TRUE, "processor"))
                   /\ rows' = rows
              ELSE IF fault = "incrementCounters"
                   THEN /\ rows' = updateSequenceContactStatus(
                                       rows, contactId, "scheduled", now)
                        /\ emailJobs' = emailJobs
                   ELSE UNCHANGED << rows, emailJobs >>
           /\ sequenceJobs' =
                 IF p.job.attemptsMade + 1 < attempts
                 THEN Append(sequenceJobs, [p.job EXCEPT !.attemptsMade = @ + 1])
                 ELSE sequenceJobs
    /\ proc' = None
    /\ UNCHANGED << now, sequence, launches, batch, jobsDone, tracking, threads,
                    emailEvent, stats, history, handler, schedIn, schedOut,
                    track, location, monitoring, response,
                    oauth2Client, request, outbox >>

\* -------------------------------------------------------- ScheduleProcessor
\* The due-row query without its nextScheduledAt <= now condition.
dueEmailsAnyTime ==
    Ascending({c \in Contacts :
        /\ rows[c].nextScheduledAt # None
        /\ rows[c].completed = FALSE})

\* processScheduledEmails, the due-row query: completed = false and
\* nextScheduledAt <= now.
dueEmails ==
    Ascending({c \in Contacts :
        /\ rows[c].nextScheduledAt # None
        /\ rows[c].nextScheduledAt[1] <= now
        /\ rows[c].completed = FALSE})

\* One execution of the sweep reads the due rows.  Of each row it keeps what
\* the query selects; read records, beside that, what the tables held when
\* the query ran in columns the query does not select.
processScheduledEmails(w) ==
    /\ batch[w] = << >>
    /\ dueEmails # << >>
    /\ batch' = [batch EXCEPT ![w] =
                    [i \in 1..Len(dueEmails) |->
                        [contactId |-> dueEmails[i],
                         currentStep |-> rows[dueEmails[i]].currentStep,
                         nextScheduledAt |-> rows[dueEmails[i]].nextScheduledAt,
                         read |-> [status |-> rows[dueEmails[i]].status,
                                   sequenceStatus |-> sequence.status]]]]
    /\ UNCHANGED << now, sequence, rows, sequenceJobs, launches, emailJobs,
                    jobsDone, tracking, threads, emailEvent, stats, history,
                    handler, schedIn, schedOut,
                    proc, track, location, monitoring, response,
                    oauth2Client, request, outbox >>

\* prisma.sequenceStep.findFirst({sequenceId, order: email.currentStep})
stepExists(currentStep) ==
    \E i \in 1..Len(sequence.steps) : sequence.steps[i].order = currentStep

\* The progress update with the step counter advanced once too often.
progressUpdateOffByOne(rs, email, isLastStep, nextSendTime, date) ==
    [rs EXCEPT ![email.contactId] =
        [@ EXCEPT !.lastProcessedAt = Some(date),
                  !.nextScheduledAt = IF isLastStep THEN None ELSE Some(nextSendTime),
                  !.currentStep = email.currentStep + 2,
                  !.completed = isLastStep,
                  !.completedAt = IF isLastStep THEN Some(date) ELSE None]]

\* The progress update of processEmail: where {id}, nothing else.
progressUpdate(rs, email, isLastStep, nextSendTime, date) ==
    [rs EXCEPT ![email.contactId] =
        [@ EXCEPT !.lastProcessedAt = Some(date),
                  !.nextScheduledAt = IF isLastStep THEN None ELSE Some(nextSendTime),
                  !.currentStep = email.currentStep + 1,
                  !.completed = isLastStep,
                  !.completedAt = IF isLastStep THEN Some(date) ELSE None]]

\* processEmail for the next row of execution w's batch; email is the row as
\* the due-row query read it.
processEmail(w) ==
    /\ batch[w] # << >>
    /\ batch' = [batch EXCEPT ![w] = Tail(@)]
    /\ LET email == Head(batch[w])
           contactId == email.contactId
           steps == sequence.steps
       IN  \E allowed \in BOOLEAN :
           \/ /\ ~allowed
              /\ UNCHANGED << rows, emailJobs >>
           \/ /\ allowed
              /\ email.currentStep >= Len(steps)
              /\ emailJobs' = emailJobs
              /\ IF ~stepExists(email.currentStep)
                 THEN IF email.currentStep >= Len(steps) - 1
                      THEN rows' = [rows EXCEPT ![contactId] =
                                      [@ EXCEPT !.completed = TRUE,
                                                !.completedAt = Some(now),
                                                !.nextScheduledAt = None]]
                      ELSE rows' = [rows EXCEPT ![contactId] =
                                      [@ EXCEPT !.currentStep = email.currentStep + 1,
                                                !.nextScheduledAt = Some(now)]]
                 \* "Step not found" is thrown; the catch schedules a retry.
                 ELSE rows' = [rows EXCEPT ![contactId] =
                                  [@ EXCEPT !.nextScheduledAt = Some(now + RETRY_DELAY)]]
           \/ /\ allowed
              /\ email.currentStep < Len(steps)
              /\ Len(emailJobs) < MaxJobs
              /\ LET currentStep == steps[email.currentStep + 1]
                     isLastStep == email.currentStep + 1 >= Len(steps)
                 IN  \E nextSendTime \in calculateNextRun(now, Some(currentStep),
                                            sequence.businessHours, FALSE,
                                            scheduledColumn, FALSE) :
                        /\ emailJobs' = Append(emailJobs,
                              EmailJob(contactId, email.currentStep, "contact",
                                       IF currentStep.replyToThread
                                       THEN rows[contactId].threadId ELSE None,
                                       FALSE, nextSendTime, FALSE, "sweeper"))
                        /\ rows' = progressUpdate(rows, email, isLastStep,
                                                  nextSendTime, now)
    /\ UNCHANGED << now, sequence, sequenceJobs, launches, jobsDone,
                    tracking, threads, emailEvent, stats, history, handler,
                    schedIn, schedOut,
                    proc, track, location, monitoring, response,
                    oauth2Client, request, outbox >>

\* processEmail for a row whose step exists, when one of its awaited calls
\* rejects: the queue (addEmailJob), the database (the progress update) or
\* the rate limiter (incrementCounters).  What ran before the failing call
\* has taken effect; the catch block then writes the retry instant.
Faults == {"addEmailJob", "update", "incrementCounters"}

\* The error leaves the loop of processScheduledEmails.
abortBatch(dueRows) == << >>

\* The catch inside the loop of processScheduledEmails: the error is logged
\* and the loop continues with the rows that follow.
continueBatch(dueRows) == Tail(dueRows)

processEmailFault(w, fault) ==
    /\ batch[w] # << >>
    /\ batch' = [batch EXCEPT ![w] = continueBatch(@)]
    /\ LET email == Head(batch[w])
           contactId == email.contactId
           steps == sequence.steps
       IN  /\ email.currentStep < Len(steps)
           /\ Len(emailJobs) < MaxJobs
           /\ LET currentStep == steps[email.currentStep + 1]
                  isLastStep == email.currentStep + 1 >= Len(steps)
                  retry(rs) == [rs EXCEPT ![contactId] =
                                  [@ EXCEPT !.nextScheduledAt =
                                                Some(now + RETRY_DELAY)]]
              IN  \E nextSendTime \in calculateNextRun(now, Some(currentStep),
                                         sequence.businessHours, FALSE,
                                         scheduledColumn, FALSE) :
                     /\ emailJobs' =
                           IF fault = "addEmailJob" THEN emailJobs
                           ELSE Append(emailJobs,
                              EmailJob(contactId, email.currentStep, "contact",
                                       IF currentStep.replyToThread
                                       THEN rows[contactId].threadId ELSE None,
                                       FALSE, nextSendTime, FALSE, "sweeper"))
                     /\ rows' =
                           IF fault = "incrementCounters"
                           THEN retry(progressUpdate(rows, email, isLastStep,
                                                     nextSendTime, now))
                           ELSE retry(rows)
    /\ UNCHANGED << now, sequence, sequenceJobs, launches, jobsDone,
                    tracking, threads, emailEvent, stats, history, handler,
                    schedIn, schedOut,
                    proc, track, location, monitoring, response,
                    oauth2Client, request, outbox >>

\* ------------------------------------------------------------ email worker
\* EmailEvent rows of a contact whose type column equals type; the column is
\* compared as the database compares strings, case included.
eventCount(contactId, type) ==
    IF type \in DOMAIN emailEvent[contactId] THEN emailEvent[contactId][type] ELSE 0

\* trackEmailEvent / createEmailEvent: one more EmailEvent row of that type.
createEmailEvent(ev, contactId, type) ==
    [ev EXCEPT ![contactId] = [@ EXCEPT ![type] = @ + 1]]

\* updateSequenceStats(sequenceId, type, contactId)
updateSequenceStats(st, type) == [st EXCEPT ![type] = @ + 1]

\* An EmailTracking row: the contact it was sent to, the email job it was
\* sent for, its threadId column, and beside these the thread id Gmail
\* returned for the send.
EmailTrackingRow(contactId, job, threadId, returned, hash) ==
    [contactId |-> contactId, job |-> job, threadId |-> threadId,
     returned |-> returned, hash |-> hash]

\* randomUUID(): a value no other call returns; the k-th call made by the
\* n-th sendEmail is named after n and k.
randomUUID(n, k) == << n, k >>

\* EmailService.createTrackingInfo of the n-th sendEmail.
createTrackingInfo(n) ==
    [trackingId |-> randomUUID(n, 1), trackingHash |-> randomUUID(n, 2)]

\* A message Gmail accepted for delivery: the email job it was sent for,
\* its recipient and the hash its pixel and link URLs carry.
SentMessage(job, contactId, hash) ==
    [job |-> job, contactId |-> contactId, hash |-> hash]

\* gmail.users.messages.send for job i: the thread id of the response is
\* the job's thread when it names one, and otherwise that of a new thread,
\* which is numbered after the job.
messagesSend(i) ==
    IF emailJobs[i].threadId # None THEN emailJobs[i].threadId[1] ELSE i

\* EmailService.createEmailTrackingRecord(emailId, options, trackedResponse)
createEmailTrackingRecord(emailId, i, options, trackedResponse) ==
    EmailTrackingRow(options.contactId, i, options.threadId, trackedResponse,
                     emailId)

\* The email worker takes job i: a delayed job only once its time has come.
\* sendEmail sends, createEmailRecords writes the tracking row and the sent
\* event, the thread is remembered and the row's status becomes sent.
processEmailJob(i) ==
    /\ i \in (1..Len(emailJobs)) \ jobsDone
    /\ emailJobs[i].delayed => emailJobs[i].scheduledTime <= now
    /\ jobsDone' = jobsDone \cup {i}
    /\ LET contactId == emailJobs[i].contactId
           n == Len(outbox) + 1
           emailId == randomUUID(n, 3)
       IN  /\ outbox' = Append(outbox,
                 SentMessage(i, contactId, createTrackingInfo(n).trackingHash))
           /\ tracking' = tracking
                 \cup {createEmailTrackingRecord(emailId, i, emailJobs[i],
                                                 messagesSend(i))}
           /\ threads' = threads \cup {contactId}
           /\ emailEvent' = createEmailEvent(emailEvent, contactId, "sent")
           /\ stats' = updateSequenceStats(stats, "sent")
           /\ rows' = [rows EXCEPT ![contactId] =
                          [@ EXCEPT !.status = "sent",
                                    !.threadId = IF @ = None
                                                 THEN Some(messagesSend(i)) ELSE @,
                                    !.lastProcessedAt = Some(now)]]
    /\ UNCHANGED << now, sequence, sequenceJobs, launches, batch, emailJobs,
                    history, handler, schedIn, schedOut,
                    proc, track, location, monitoring, response,
                    oauth2Client, request >>

\* The attempts the email queue gives a job.
emailAttempts == 2

\* The sent-folder rewrite after Gmail accepted the tracked send: the calls
\* that can fail.
RewriteFaults == {"messages.get", "messages.insert", "messages.delete"}

\* The number of times job i has been sent.
sends(i) == Cardinality({n \in 1..Len(outbox) : outbox[n].job = i})

\* The email worker takes job i, Gmail accepts the tracked send, and a call
\* of the rewrite fails.  A failed messages.delete is caught and logged, and
\* sendEmail goes on as if it had succeeded.  A failed messages.get or
\* messages.insert leaves the try block: createEmailRecords is not reached,
\* sendEmail logs and rethrows, the job fails and the queue tries it again
\* until its attempts are used up.
processEmailJobFault(i, fault) ==
    IF fault = "messages.delete"
    THEN processEmailJob(i)
    ELSE /\ i \in (1..Len(emailJobs)) \ jobsDone
         /\ emailJobs[i].delayed => emailJobs[i].scheduledTime <= now
         /\ outbox' = Append(outbox,
               SentMessage(i, emailJobs[i].contactId,
                           createTrackingInfo(Len(outbox) + 1).trackingHash))
         /\ jobsDone' = IF sends(i) + 1 >= emailAttempts
                        THEN jobsDone \cup {i} ELSE jobsDone
         /\ UNCHANGED << now, sequence, rows, sequenceJobs, launches, batch,
                         emailJobs, tracking, threads, emailEvent, stats,
                         history, handler, schedIn, schedOut, proc, track,
                         location, monitoring, response, oauth2Client,
                         request >>

\* -------------------------------------------------------- inbound pipeline
Messages == [contactId : Contacts, kind : {"reply", "bounce"}]

\* A correspondent's message (a reply, or a delivery-failure report) lands
\* in the thread of an email that was sent.
messageArrives(m) ==
    /\ m.contactId \in threads
    /\ m \notin history.arrived
    /\ history' = [history EXCEPT !.arrived = @ \cup {m}]
    /\ UNCHANGED << now, sequence, rows, sequenceJobs, launches, batch,
                    emailJobs, jobsDone, tracking, threads, emailEvent, stats,
                    handler, schedIn, schedOut,
                    proc, track, location, monitoring, response,
                    oauth2Client, request, outbox >>

\* getGmailHistory: history.data.historyId is the id of the mailbox's
\* current history record, an opaque number; the one a read returns is
\* named after the read.
getGmailHistory == [historyId |-> history.pushes + 1]

\* POST: a push notification whose history holds message m starts handler h.
POST(h, m) ==
    /\ handler[h] = None
    /\ m \in history.arrived
    /\ history.pushes < MaxPushes
    /\ history' = [history EXCEPT !.pushes = @ + 1]
    /\ handler' = [handler EXCEPT ![h] =
            Some([message |-> m, pc |-> "replies",
                  historyId |-> getGmailHistory.historyId])]
    /\ UNCHANGED << now, sequence, rows, sequenceJobs, launches, batch,
                    emailJobs, jobsDone, tracking, threads, emailEvent, stats,
                    schedIn, schedOut,
                    proc, track, location, monitoring, response,
                    oauth2Client, request, outbox >>

\* route.updateSequenceContactStatus: updateMany guarded by
\* status notIn ["completed", status, "opted_out"].
routeUpdateSequenceContactStatus(rs, contactId, status) ==
    IF rs[contactId].status \notin {"completed", status, "opted_out"}
    THEN [rs EXCEPT ![contactId] = [@ EXCEPT !.status = status]]
    ELSE rs

hasExistingReplyEvent(contactId) == eventCount(contactId, "REPLIED") > 0
hasExistingReply(contactId) == eventCount(contactId, "REPLIED") > 0
hasBounceEvent(contactId) == eventCount(contactId, "BOUNCED") > 0
findEmailThread(contactId) == contactId \in threads
findTrackingEvent(contactId) == \E t \in tracking : t.contactId = contactId

\* processMessageForReplies up to the point where a reply is to be
\* recorded: processThreadBasedReply's lookups, and when they find nothing,
\* processReferenceBasedReply, which records the event by itself.
processMessageForReplies(h) ==
    /\ handler[h] # None
    /\ handler[h][1].pc = "replies"
    /\ LET m == handler[h][1].message
           c == m.contactId
           threadBased == /\ findEmailThread(c)
                          /\ findTrackingEvent(c)
                          /\ ~hasExistingReplyEvent(c)
           referenceBased == /\ m.kind = "reply"
                             /\ findTrackingEvent(c)
                             /\ ~hasExistingReply(c)
       IN  /\ handler' = [handler EXCEPT ![h] =
                   Some([@[1] EXCEPT
                         !.pc = IF threadBased THEN "processReplyEvent" ELSE "bounces"])]
           /\ emailEvent' = IF ~threadBased /\ referenceBased
                            THEN createEmailEvent(emailEvent, c, "replied")
                            ELSE emailEvent
    /\ UNCHANGED << now, sequence, rows, sequenceJobs, launches, batch,
                    emailJobs, jobsDone, tracking, threads, stats, history,
                    schedIn, schedOut,
                    proc, track, location, monitoring, response,
                    oauth2Client, request, outbox >>

processReplyEvent(h) ==
    /\ handler[h] # None
    /\ handler[h][1].pc = "processReplyEvent"
    /\ LET c == handler[h][1].message.contactId
       IN  /\ emailEvent' = createEmailEvent(emailEvent, c, "replied")
           /\ stats' = updateSequenceStats(stats, "replied")
           /\ rows' = routeUpdateSequenceContactStatus(rows, c, "replied")
    /\ handler' = [handler EXCEPT ![h] = Some([@[1] EXCEPT !.pc = "bounces"])]
    /\ UNCHANGED << now, sequence, sequenceJobs, launches, batch, emailJobs,
                    jobsDone, tracking, threads, history, schedIn, schedOut,
                    proc, track, location, monitoring, response,
                    oauth2Client, request, outbox >>

\* processMessageForBounces up to processBounceEvent.
processMessageForBounces(h) ==
    /\ handler[h] # None
    /\ handler[h][1].pc = "bounces"
    /\ LET m == handler[h][1].message
           c == m.contactId
           found == /\ m.kind = "bounce"
                    /\ findEmailThread(c)
                    /\ ~hasBounceEvent(c)
                    /\ findTrackingEvent(c)
       IN  handler' = [handler EXCEPT ![h] =
               Some([@[1] EXCEPT !.pc = IF found THEN "processBounceEvent"
                                        ELSE "updateHistoryId"])]
    /\ UNCHANGED << now, sequence, rows, sequenceJobs, launches, batch,
                    emailJobs, jobsDone, tracking, threads, emailEvent, stats,
                    history, schedIn, schedOut,
                    proc, track, location, monitoring, response,
                    oauth2Client, request, outbox >>

processBounceEvent(h) ==
    /\ handler[h] # None
    /\ handler[h][1].pc = "processBounceEvent"
    /\ LET c == handler[h][1].message.contactId
       IN  /\ emailEvent' = createEmailEvent(emailEvent, c, "bounced")
           /\ stats' = updateSequenceStats(stats, "bounced")
           /\ rows' = routeUpdateSequenceContactStatus(rows, c, "bounced")
    /\ handler' = [handler EXCEPT ![h] = Some([@[1] EXCEPT !.pc = "updateHistoryId"])]
    /\ UNCHANGED << now, sequence, sequenceJobs, launches, batch, emailJobs,
                    jobsDone, tracking, threads, history, schedIn, schedOut,
                    proc, track, location, monitoring, response,
                    oauth2Client, request, outbox >>

\* The end of POST: updateHistoryId stores the history id the history
\* list returned, and the request is answered 200.
updateHistoryId(h) ==
    /\ handler[h] # None
    /\ handler[h][1].pc = "updateHistoryId"
    /\ history' = [history EXCEPT !.watchHistoryId = handler[h][1].historyId]
    /\ handler' = [handler EXCEPT ![h] = None]
    /\ response' = Some(200)
    /\ location' = None
    /\ UNCHANGED << now, sequence, rows, sequenceJobs, launches, batch,
                    emailJobs, jobsDone, tracking, threads, emailEvent, stats,
                    schedIn, schedOut, proc, track, monitoring,
                    oauth2Client, request, outbox >>

\* What a push request carries and finds: the bearer token as
\* validateAuthorization and verifyPubSubJwt judge it, whether a user
\* with a Google account has the emailAddress, and that account's tokens.
PushRequest(token, emailAddress, account) ==
    [token |-> token, emailAddress |-> emailAddress, account |-> account]

PushRequests ==
    {PushRequest("missing", "known", "ok"),
     PushRequest("invalid", "known", "ok"),
     PushRequest("invalid", "unknown", "ok"),
     PushRequest("valid", "unknown", "ok"),
     PushRequest("valid", "known", "refresh_failed"),
     PushRequest("valid", "known", "no_refresh_token"),
     PushRequest("valid", "known", "ok")}

\* The checks of POST without the JWT verification.
validateRequestNoJwt(req) ==
    IF req.token = "missing" THEN 401
    ELSE IF req.emailAddress = "unknown" THEN 404
    ELSE IF req.account = "refresh_failed" THEN 401
    ELSE IF req.account = "no_refresh_token" THEN 401
    ELSE 0

\* The checks of POST before the Gmail client is made: the status of the
\* refusal, or 0 when the request goes on.
validateRequest(req) ==
    IF req.token = "missing" THEN 401
    ELSE IF req.token = "invalid" THEN 401
    ELSE IF req.emailAddress = "unknown" THEN 404
    ELSE IF req.account = "refresh_failed" THEN 401
    ELSE IF req.account = "no_refresh_token" THEN 401
    ELSE 0

\* POST with its checks: a refused request is answered at once, another
\* one reads the history and starts handler h.
POSTrequest(h, m, req) ==
    IF validateRequest(req) = 0
    THEN POST(h, m)
    ELSE /\ response' = Some(validateRequest(req))
         /\ location' = None
         /\ UNCHANGED << now, sequence, rows, sequenceJobs, launches, batch,
                         emailJobs, jobsDone, tracking, threads, emailEvent,
                         stats, history, handler, schedIn, schedOut, proc,
                         track, monitoring,
                    oauth2Client, request, outbox >>

\* ------------------------------------------------------------- the system
\* The queue service: control API, sequence processor, sweeper, the clock.
Next ==
    \/ Advance
    \/ \E userId \in Users, testMode \in BOOLEAN : launchSequence(userId, testMode)
    \/ \E userId \in Users : pauseSequence(userId)
    \/ \E userId \in Users : resumeSequence(userId)
    \/ \E userId \in Users : resetSequenceHandler(userId)
    \/ process
    \/ \E w \in Workers : processScheduledEmails(w)
    \/ \E w \in Workers : processEmail(w)

Spec == Init /\ [][Next]_vars

\* The state a launch of a two-step sequence (no business hours of its
\* own, so the default ones apply) leaves behind once process() has
\* scheduled every contact: step 0 is queued for each, every row points at
\* step 1.  Both draws of the intraday distribution gave the last minute of
\* the business day.
SendInstant == StartInstant + 29

InitSend ==
    /\ now = StartInstant
    /\ \E steps \in StepLists(1) :
          /\ Len(steps) = 2
          /\ sequence = [status |-> "active", testMode |-> FALSE, steps |-> steps,
                         businessHours |-> None]
    /\ rows = [c \in Contacts |->
                 [NewRow EXCEPT !.status = "scheduled", !.currentStep = 1,
                                !.nextScheduledAt = Some(SendInstant),
                                !.lastProcessedAt = Some(StartInstant)]]
    /\ sequenceJobs = << >>
    /\ launches = 1
    /\ batch = [w \in Workers |-> << >>]
    /\ emailJobs = [c \in Contacts |->
                      EmailJob(c, 0, "contact", None, FALSE, SendInstant,
                               TRUE, "processor")]
    /\ jobsDone = {}
    /\ tracking = {}
    /\ threads = {}
    /\ emailEvent = [c \in Contacts |-> NoEvents]
    /\ stats = NoStats
    /\ history = [arrived |-> {}, pushes |-> 0, watchHistoryId |-> 0]
    /\ handler = [h \in Handlers |-> None]
    /\ proc = None
    /\ track = NoTrack
    /\ monitoring = TRUE
    /\ response = None
    /\ location = None
    /\ oauth2Client = NoCredentials
    /\ request = [u \in AuthUsers |-> NoRequest]
    /\ outbox = << >>
    /\ schedIdle

\* The email worker draining the queue as the jobs come due.
NextSend ==
    \/ Advance
    \/ \E i \in 1..MaxJobs : processEmailJob(i)

SpecSend == InitSend /\ [][NextSend]_vars

\* What a launch leaves behind once process() has scheduled every contact,
\* for each sequence of two steps or more: step 0 is queued for each
\* contact.
InitMail ==
    /\ now = StartInstant
    /\ \E base \in {0, 1} : \E steps \in StepLists(base) :
          /\ Len(steps) >= 2
          /\ sequence = [status |-> "active", testMode |-> FALSE, steps |-> steps,
                         businessHours |-> None]
    /\ rows = [c \in Contacts |->
                 [NewRow EXCEPT !.status = "scheduled", !.currentStep = 1,
                                !.nextScheduledAt = Some(SendInstant),
                                !.lastProcessedAt = Some(StartInstant)]]
    /\ sequenceJobs = << >>
    /\ launches = 1
    /\ batch = [w \in Workers |-> << >>]
    /\ emailJobs = [c \in Contacts |->
                      EmailJob(c, 0, "contact", None, FALSE, SendInstant,
                               TRUE, "processor")]
    /\ jobsDone = {}
    /\ tracking = {}
    /\ threads = {}
    /\ emailEvent = [c \in Contacts |-> NoEvents]
    /\ stats = NoStats
    /\ history = [arrived |-> {}, pushes |-> 0, watchHistoryId |-> 0]
    /\ handler = [h \in Handlers |-> None]
    /\ proc = None
    /\ track = NoTrack
    /\ monitoring = TRUE
    /\ response = None
    /\ location = None
    /\ oauth2Client = NoCredentials
    /\ request = [u \in AuthUsers |-> NoRequest]
    /\ outbox = << >>
    /\ schedIdle

\* The email worker with a sent-folder rewrite that can fail.
NextMail ==
    \/ Advance
    \/ \E i \in 1..MaxJobs : processEmailJob(i)
    \/ \E i \in 1..MaxJobs, fault \in RewriteFaults : processEmailJobFault(i, fault)

SpecMail == InitMail /\ [][NextMail]_vars

\* The email worker beside the sweeper: the sweeper adds the jobs of the
\* later steps while the worker drains the queue.
NextDeliver ==
    \/ Advance
    \/ \E i \in 1..MaxJobs : processEmailJob(i)
    \/ \E w \in Workers : processScheduledEmails(w)
    \/ \E w \in Workers : processEmail(w)

SpecDeliver == InitSend /\ [][NextDeliver]_vars

\* The state SpecSend ends in: step 0 has been sent to every contact, and
\* every row is due for step 1.
InitInbound ==
    /\ now = SendInstant
    /\ \E steps \in StepLists(1) :
          /\ Len(steps) = 2
          /\ sequence = [status |-> "active", testMode |-> FALSE, steps |-> steps,
                         businessHours |-> None]
    /\ rows = [c \in Contacts |->
                 [NewRow EXCEPT !.status = "sent", !.currentStep = 1,
                                !.nextScheduledAt = Some(SendInstant),
                                !.lastProcessedAt = Some(SendInstant),
                                !.threadId = Some(c)]]
    /\ sequenceJobs = << >>
    /\ launches = 1
    /\ batch = [w \in Workers |-> << >>]
    /\ emailJobs = [c \in Contacts |->
                      EmailJob(c, 0, "contact", None, FALSE, SendInstant,
                               TRUE, "processor")]
    /\ jobsDone = Contacts
    /\ tracking = {EmailTrackingRow(c, c, None, c, randomUUID(c, 3)) : c \in Contacts}
    /\ threads = Contacts
    /\ emailEvent = [c \in Contacts |-> [NoEvents EXCEPT !.sent = 1]]
    /\ stats = [NoStats EXCEPT !.sent = NumContacts]
    /\ history = [arrived |-> {}, pushes |-> 0, watchHistoryId |-> 0]
    /\ handler = [h \in Handlers |-> None]
    /\ proc = None
    /\ track = NoTrack
    /\ monitoring = TRUE
    /\ response = None
    /\ location = None
    /\ oauth2Client = NoCredentials
    /\ request = [u \in AuthUsers |-> NoRequest]
    /\ outbox = [c \in Contacts |-> SentMessage(c, c, randomUUID(c, 2))]
    /\ schedIdle

\* The mailbox, the push handlers and the sweeper.
NextInbound ==
    \/ \E m \in Messages : messageArrives(m)
    \/ \E h \in Handlers, m \in Messages : POST(h, m)
    \/ \E h \in Handlers : processMessageForReplies(h)
    \/ \E h \in Handlers : processReplyEvent(h)
    \/ \E h \in Handlers : processMessageForBounces(h)
    \/ \E h \in Handlers : processBounceEvent(h)
    \/ \E h \in Handlers : updateHistoryId(h)
    \/ \E w \in Workers : processScheduledEmails(w)
    \/ \E w \in Workers : processEmail(w)

SpecInbound == InitInbound /\ [][NextInbound]_vars

\* The push endpoint with its checks and its answers.
NextPush ==
    \/ \E m \in Messages : messageArrives(m)
    \/ \E h \in Handlers, m \in Messages, req \in PushRequests :
          POSTrequest(h, m, req)
    \/ \E h \in Handlers : processMessageForReplies(h)
    \/ \E h \in Handlers : processReplyEvent(h)
    \/ \E h \in Handlers : processMessageForBounces(h)
    \/ \E h \in Handlers : processBounceEvent(h)
    \/ \E h \in Handlers : updateHistoryId(h)

SpecPush == InitInbound /\ [][NextPush]_vars

\* The sweeper with calls that fail.
NextFault ==
    \/ Advance
    \/ \E w \in Workers : processScheduledEmails(w)
    \/ \E w \in Workers : processEmail(w)
    \/ \E w \in Workers, fault \in Faults : processEmailFault(w, fault)

SpecFault == InitSend /\ [][NextFault]_vars

\* The sequence was launched twice in a row (the launch handler does not
\* look at the sequence's status): both sequence jobs wait in the queue.
InitSteps ==
    /\ now = StartInstant
    /\ \E base \in {0, 1} : \E steps \in StepLists(base) :
          sequence = [status |-> "active", testMode |-> FALSE, steps |-> steps,
                      businessHours |-> None]
    /\ rows = [c \in Contacts |-> NewRow]
    /\ sequenceJobs = << [testMode |-> FALSE, attemptsMade |-> 0],
                         [testMode |-> FALSE, attemptsMade |-> 0] >>
    /\ launches = 2
    /\ batch = [w \in Workers |-> << >>]
    /\ emailJobs = << >>
    /\ jobsDone = {}
    /\ tracking = {}
    /\ threads = {}
    /\ emailEvent = [c \in Contacts |-> NoEvents]
    /\ stats = NoStats
    /\ history = [arrived |-> {}, pushes |-> 0, watchHistoryId |-> 0]
    /\ handler = [h \in Handlers |-> None]
    /\ proc = None
    /\ track = NoTrack
    /\ monitoring = TRUE
    /\ response = None
    /\ location = None
    /\ oauth2Client = NoCredentials
    /\ request = [u \in AuthUsers |-> NoRequest]
    /\ outbox = << >>
    /\ schedIdle

\* The sequence processor, await by await, beside the sweeper.
NextSteps ==
    \/ Advance
    \/ processStart
    \/ processContact
    \/ processSchedule
    \/ processStatus
    \/ \E w \in Workers : processScheduledEmails(w)
    \/ \E w \in Workers : processEmail(w)

SpecSteps == InitSteps /\ [][NextSteps]_vars

\* The sequence processor with calls that fail.
NextProcess ==
    \/ processStart
    \/ processContact
    \/ processSchedule
    \/ processStatus
    \/ \E fault \in ProcessFaults : processFault(fault)

SpecProcess == InitSteps /\ [][NextProcess]_vars

\* A sequence as the web app left it: any of the step lists or no step at
\* all, and contacts that are new or have opted out.
InitControl ==
    /\ now = StartInstant
    /\ \E base \in {0, 1} : \E steps \in StepLists(base) \cup {<< >>} :
          sequence = [status |-> "draft", testMode |-> FALSE, steps |-> steps,
                      businessHours |-> None]
    /\ rows \in [Contacts -> {NewRow, [NewRow EXCEPT !.status = "opted_out"]}]
    /\ sequenceJobs = << >>
    /\ launches = 0
    /\ batch = [w \in Workers |-> << >>]
    /\ emailJobs = << >>
    /\ jobsDone = {}
    /\ tracking = {}
    /\ threads = {}
    /\ emailEvent = [c \in Contacts |-> NoEvents]
    /\ stats = NoStats
    /\ history = [arrived |-> {}, pushes |-> 0, watchHistoryId |-> 0]
    /\ handler = [h \in Handlers |-> None]
    /\ proc = None
    /\ track = NoTrack
    /\ monitoring = FALSE
    /\ response = None
    /\ location = None
    /\ oauth2Client = NoCredentials
    /\ request = [u \in AuthUsers |-> NoRequest]
    /\ outbox = << >>
    /\ schedIdle

\* The control API and its answers.
NextControl ==
    \/ \E userId \in Users, testMode \in BOOLEAN :
          launchSequenceAnswered(userId, testMode)
    \/ \E userId \in Users : pauseSequenceAnswered(userId)
    \/ \E userId \in Users : resumeSequenceAnswered(userId)
    \/ \E userId \in Users : resetSequenceAnswered(userId)

SpecControl == InitControl /\ [][NextControl]_vars

\* The control API called on a sequence the web app has just left or on one
\* that is running: every contact has been sent step 0 and has its tracking
\* row, event counters and statistics.
InitOwnership == InitControl \/ InitInbound

SpecOwnership == InitOwnership /\ [][NextControl]_vars

\* ------------------------------------------------- tracking route (web app)
\* The hash and lid values a request can carry: the known ones, a hash no
\* tracking row has, and a link id no TrackedLink has.
RequestHashes == TrackingHashes \cup {"h0"}
RequestLinkIds == {Some(l) : l \in LinkIds \cup {3}} \cup {None}
NodeEnvs == {"development", "production"}

\* tracking-service.recordLinkClick(linkId): a LinkClick row is appended, the
\* link's clickCount and SequenceStats.clickedEmails go up by one.
recordLinkClick(linkId) ==
    [track EXCEPT !.linkClick[linkId] = @ + 1,
                  !.clickCount[linkId] = @ + 1,
                  !.clickedEmails = @ + 1]

\* prisma.emailTrackingEvent.findUnique({where: {hash},
\*     select: {links: {where: {id: linkId}}}}): None when no row has the
\* hash, otherwise the links of that row with the id asked for.
findUniqueWithLinks(hash, linkId) ==
    IF hash \notin TrackingHashes
    THEN None
    ELSE Some({l \in LinkIds : l = linkId /\ linkHash(l) = hash})

\* TrackedLink.originalUrl, as prepareTrackedContent stored it.
originalUrl(linkId) ==
    IF linkId = 1 THEN "https://a.example" ELSE "https://b.example/x?y=1"

\* String(new URL(url)), which NextResponse.redirect puts in the Location
\* header: a URL without a path is given the path "/".
validateURL(url) ==
    IF url = "https://a.example" THEN "https://a.example/" ELSE url

\* handleLinkClick(hash, linkId): it throws before recording anything when
\* lid is missing, the hash is unknown or the row has no such link;
\* otherwise it records the click and redirects (NextResponse.redirect
\* without a status answers 307).
handleLinkClick(hash, linkId) ==
    LET threw == [threw |-> TRUE, track |-> track, status |-> 0,
                  location |-> None]
    IN  IF linkId = None THEN threw
        ELSE LET existingEvent == findUniqueWithLinks(hash, linkId[1])
             IN  IF existingEvent = None THEN threw
                 ELSE IF existingEvent[1] = {} THEN threw
                 ELSE [threw |-> FALSE, track |-> recordLinkClick(linkId[1]),
                       status |-> 307,
                       location |-> Some(validateURL(originalUrl(linkId[1])))]

\* GET /api/track/{hash}/click?lid={linkId}: the catch block answers the
\* error page with status 400 when NODE_ENV is "development", and the
\* transparent pixel with the default status otherwise.
GET(hash, linkId, NODE_ENV) ==
    LET out == handleLinkClick(hash, linkId)
    IN  /\ IF out.threw THEN TRUE
           ELSE track.clickCount[linkId[1]] < MaxClicks
        /\ track' = out.track
        /\ response' = Some(IF ~out.threw THEN out.status
                            ELSE IF NODE_ENV = "development" THEN 400
                            ELSE 200)
        /\ location' = out.location
        /\ UNCHANGED << now, sequence, rows, sequenceJobs, launches, batch,
                        emailJobs, jobsDone, tracking, threads, emailEvent,
                        stats, history, handler, schedIn, schedOut, proc,
                        monitoring,
                    oauth2Client, request, outbox >>

\* Two tracking rows with one link each, nothing clicked yet.
InitTrack ==
    /\ now = StartInstant
    /\ sequence = [status |-> "draft", testMode |-> FALSE, steps |-> << >>,
                   businessHours |-> None]
    /\ rows = [c \in Contacts |-> NewRow]
    /\ sequenceJobs = << >>
    /\ launches = 0
    /\ batch = [w \in Workers |-> << >>]
    /\ emailJobs = << >>
    /\ jobsDone = {}
    /\ tracking = {}
    /\ threads = {}
    /\ emailEvent = [c \in Contacts |-> NoEvents]
    /\ stats = NoStats
    /\ history = [arrived |-> {}, pushes |-> 0, watchHistoryId |-> 0]
    /\ handler = [h \in Handlers |-> None]
    /\ proc = None
    /\ track = NoTrack
    /\ monitoring = FALSE
    /\ response = None
    /\ location = None
    /\ oauth2Client = NoCredentials
    /\ request = [u \in AuthUsers |-> NoRequest]
    /\ outbox = << >>
    /\ schedIdle

\* A referer or user-agent header is kept as the set of those substrings
\* the handler looks for that it contains; includes is String.includes.
includes(str, sub) == sub \in str

Referers ==
    {None, Some({"mail.google.com/mail/u/"}),
     Some({"mail.google.com/mail/u/", "?reply="}),
     Some({"?forward="}), Some({"googleapis.com"})}
UserAgents == {{}, {"googlebot"}, {"google-smtp-source"}}

isGmailComposeView(referer) ==
    /\ referer # None
    /\ includes(referer[1], "mail.google.com/mail/u/")
    /\ \/ includes(referer[1], "/compose")
       \/ includes(referer[1], "?compose=")
       \/ includes(referer[1], "?reply=")
       \/ includes(referer[1], "?forward=")

isGoogleService(referer, userAgent) ==
    \/ includes(userAgent, "googlebot")
    \/ includes(userAgent, "google-smtp-source")
    \/ (referer # None /\ includes(referer[1], "googleapis.com"))

\* request.url of a pixel request.
requestUrl(hash) ==
    IF hash = "h1" THEN "/api/track/h1.png"
    ELSE IF hash = "h2" THEN "/api/track/h2.png" ELSE "/api/track/h0.png"

\* handleEmailOpen(hash, request): what it answers, and whether it
\* records the open first. An unknown hash throws; a Gmail compose view
\* is answered 307 with Location: request.url; a request of a Google
\* service is answered with the pixel; neither is recorded.
handleEmailOpen(hash, referer, userAgent) ==
    IF hash \notin TrackingHashes
    THEN [threw |-> TRUE, record |-> FALSE, status |-> 0, location |-> None]
    ELSE IF isGmailComposeView(referer)
    THEN [threw |-> FALSE, record |-> FALSE, status |-> 307,
          location |-> Some(requestUrl(hash))]
    ELSE IF isGoogleService(referer, userAgent)
    THEN [threw |-> FALSE, record |-> FALSE, status |-> 200,
          location |-> None]
    ELSE [threw |-> FALSE, record |-> TRUE, status |-> 200,
          location |-> None]

\* tracking-service.recordEmailOpen(hash), first write: openCount goes up
\* by one, an EmailEvent(opened) is appended and SequenceStats.openedEmails
\* goes up by one.
recordEmailOpen(hash) ==
    [track EXCEPT !.openCount[hash] = @ + 1,
                  !.opened[hash] = @ + 1,
                  !.openedEmails = @ + 1,
                  !.recording[hash] = @ + 1]

\* The second write without its condition: every open sets openedAt and
\* counts a unique open.
updateFirstOpenUnconditional(hash) ==
    [track EXCEPT !.openedAt[hash] = Some(now),
                  !.openedAtWrites[hash] = @ + 1,
                  !.uniqueOpens = @ + 1,
                  !.recording[hash] = @ - 1,
                  !.counted[hash] = @ + 1]

\* tracking-service.recordEmailOpen(hash), second write: the conditional
\* update on "first opened at is null", which sets openedAt and counts
\* the unique open when it updated the row.
updateFirstOpen(hash) ==
    IF track.openedAt[hash] = None
    THEN [track EXCEPT !.openedAt[hash] = Some(now),
                       !.openedAtWrites[hash] = @ + 1,
                       !.uniqueOpens = @ + 1,
                       !.recording[hash] = @ - 1,
                       !.counted[hash] = @ + 1]
    ELSE [track EXCEPT !.recording[hash] = @ - 1,
                       !.counted[hash] = @ + 1]

\* GET /api/track/{hash}.png up to the first write of recordEmailOpen; a
\* request that is not recorded is answered here.
GETpixel(hash, referer, userAgent, NODE_ENV) ==
    LET out == handleEmailOpen(hash, referer, userAgent)
    IN  /\ IF out.record
           THEN /\ track.openCount[hash] < MaxOpens
                /\ track.recording[hash] < MaxRecording
                /\ track' = recordEmailOpen(hash)
                /\ UNCHANGED << response, location >>
           ELSE /\ response' = Some(IF ~out.threw THEN out.status
                                    ELSE IF NODE_ENV = "development" THEN 400
                                    ELSE 200)
                /\ location' = out.location
                /\ UNCHANGED track
        /\ UNCHANGED << now, sequence, rows, sequenceJobs, launches, batch,
                        emailJobs, jobsDone, tracking, threads, emailEvent,
                        stats, history, handler, schedIn, schedOut, proc,
                        monitoring,
                    oauth2Client, request, outbox >>

\* The rest of a recorded pixel request: the second write of
\* recordEmailOpen, then the pixel with status 200.
GETpixelRecorded(hash) ==
    /\ track.recording[hash] > 0
    /\ track' = updateFirstOpen(hash)
    /\ response' = Some(200)
    /\ location' = None
    /\ UNCHANGED << now, sequence, rows, sequenceJobs, launches, batch,
                    emailJobs, jobsDone, tracking, threads, emailEvent,
                    stats, history, handler, schedIn, schedOut, proc,
                    monitoring,
                    oauth2Client, request, outbox >>

NextTrack ==
    \/ \E hash \in RequestHashes, linkId \in RequestLinkIds,
          NODE_ENV \in NodeEnvs :
          GET(hash, linkId, NODE_ENV)
    \/ \E hash \in RequestHashes, referer \in Referers,
          userAgent \in UserAgents, NODE_ENV \in NodeEnvs :
          GETpixel(hash, referer, userAgent, NODE_ENV)
    \/ \E hash \in TrackingHashes : GETpixelRecorded(hash)

SpecTrack == InitTrack /\ [][NextTrack]_vars

\* ------------------------------------------------- the shared OAuth2 client
\* refreshAccessToken's default number of attempts.
maxRetries == 3

\* The answers of the token endpoint: a new access token, a response
\* without one, or an error.
RefreshAnswers == {"token", "no_token", "error"}

\* The delay before the next attempt, in milliseconds.
backoff(attempt) == Min(1000 * 2 ^ (attempt - 1), 10000)

\* The catch block never finds the retries exhausted.
retriesExhaustedNever(attempt) == FALSE

\* The catch block's test after its attempt++.
retriesExhausted(attempt) == attempt = maxRetries

\* The account a Gmail call made through a client acts on: that of the
\* access token, or of the refresh token the library exchanges when the
\* client holds no access token.
actingAccount(credentials) ==
    IF credentials.access_token # None THEN credentials.access_token
    ELSE credentials.refresh_token

\* A push notification for user u is accepted: handleAccessTokenRefresh
\* refreshes the access token when the stored one has expired.
handleAccessTokenRefresh(u, expired) ==
    /\ request[u].pc = "idle"
    /\ request' = [request EXCEPT ![u].pc = IF expired THEN "refresh" ELSE "init"]
    /\ UNCHANGED << now, sequence, rows, sequenceJobs, launches, batch,
                    emailJobs, jobsDone, tracking, threads, emailEvent, stats,
                    history, handler, schedIn, schedOut, proc, track,
                    monitoring, response, location, oauth2Client, outbox >>

\* One turn of refreshAccessToken's while loop: the shared client is given
\* the user's refresh token and asks the token endpoint; the library stores
\* the tokens of a successful answer in the client.  With the loop
\* condition false the function returns null.
refreshAccessToken(u, answer) ==
    /\ request[u].pc = "refresh"
    /\ LET r == request[u]
       IN  IF r.attempt < maxRetries
           THEN IF answer = "token"
                THEN /\ oauth2Client' = Credentials(Some(u), Some(u))
                     /\ request' = [request EXCEPT ![u] =
                           [r EXCEPT !.tries = @ + 1, !.result = Some(u),
                                     !.pc = "init"]]
                ELSE /\ oauth2Client' = Credentials(None, Some(u))
                     /\ request' = [request EXCEPT ![u] =
                           [r EXCEPT !.tries = @ + 1, !.attempt = @ + 1,
                                     !.pc = IF retriesExhausted(r.attempt + 1)
                                            THEN "threw" ELSE "sleep"]]
           ELSE /\ oauth2Client' = oauth2Client
                /\ request' = [request EXCEPT ![u].pc = "null"]
    /\ UNCHANGED << now, sequence, rows, sequenceJobs, launches, batch,
                    emailJobs, jobsDone, tracking, threads, emailEvent, stats,
                    history, handler, schedIn, schedOut, proc, track,
                    monitoring, response, location, outbox >>

\* await sleep(delay) between two attempts.
sleep(u) ==
    /\ request[u].pc = "sleep"
    /\ request' = [request EXCEPT ![u] =
          [@ EXCEPT !.slept = Append(@, backoff(request[u].attempt)),
                    !.pc = "refresh"]]
    /\ UNCHANGED << now, sequence, rows, sequenceJobs, launches, batch,
                    emailJobs, jobsDone, tracking, threads, emailEvent, stats,
                    history, handler, schedIn, schedOut, proc, track,
                    monitoring, response, location, oauth2Client, outbox >>

\* initializeGmailClient gives the shared client the user's tokens and
\* returns a Gmail client bound to it; getGmailHistory issues history.list
\* through it before any other request can run.
initializeGmailClient(u) ==
    /\ request[u].pc = "init"
    /\ oauth2Client' = Credentials(Some(u), Some(u))
    /\ request' = [request EXCEPT ![u] =
          [@ EXCEPT !.calls = Append(@, actingAccount(oauth2Client')[1]),
                    !.pc = "messages"]]
    /\ UNCHANGED << now, sequence, rows, sequenceJobs, launches, batch,
                    emailJobs, jobsDone, tracking, threads, emailEvent, stats,
                    history, handler, schedIn, schedOut, proc, track,
                    monitoring, response, location, outbox >>

\* processHistoryRecords, once the history has been received: messages.get
\* through the same Gmail client, with the credentials the shared client
\* holds by then.
getMessageHeaders(u) ==
    /\ request[u].pc = "messages"
    /\ request' = [request EXCEPT ![u] =
          [@ EXCEPT !.calls = Append(@, actingAccount(oauth2Client)[1]),
                    !.pc = "done"]]
    /\ UNCHANGED << now, sequence, rows, sequenceJobs, launches, batch,
                    emailJobs, jobsDone, tracking, threads, emailEvent, stats,
                    history, handler, schedIn, schedOut, proc, track,
                    monitoring, response, location, oauth2Client, outbox >>

\* Two push notifications, one per user, handled by one server process.
NextAuth ==
    \/ \E u \in AuthUsers, expired \in BOOLEAN : handleAccessTokenRefresh(u, expired)
    \/ \E u \in AuthUsers, answer \in RefreshAnswers : refreshAccessToken(u, answer)
    \/ \E u \in AuthUsers : sleep(u)
    \/ \E u \in AuthUsers : initializeGmailClient(u)
    \/ \E u \in AuthUsers : getMessageHeaders(u)

InitAuth ==
    /\ Init
    /\ Len(sequence.steps) = 1 /\ sequence.steps[1].order = 1
    /\ sequence.businessHours = None

SpecAuth == InitAuth /\ [][NextAuth]_vars

\* Every request that can take a step eventually takes one.
SpecAuthLive == SpecAuth /\ WF_vars(NextAuth)

\* ------------------------------------------------------- scheduler harness
\* One call of calculateNextRun on arguments drawn from the sets below.
Friday == 4 * 24 * 60
Saturday == 5 * 24 * 60

SchedTimes ==
    { StartInstant,                       \* Monday 16:30
      7 * 24 * 60 + 8 * 60,               \* Monday 08:00
      7 * 24 * 60 + Friday + 16 * 60 + 59,
      7 * 24 * 60 + Saturday + 10 * 60 }

SchedSteps ==
    { None,   \* steps[currentStepIndex + 1] past the last step
      Some(Step(0, "manual_email", "immediate", 0, "", FALSE)),
      Some(Step(1, "automated_email", "delay", 2, "days", TRUE)),
      Some(Step(1, "manual_email", "delay", 3, "hours", FALSE)),
      Some(Step(1, "automated_email", "delay", 45, "minutes", FALSE)),
      Some(Step(1, "automated_email", "delay", 0, "", FALSE)),
      Some(Step(2, "wait", "delay", 2, "days", FALSE)) }

SchedBusinessHours ==
    { None,
      Some(getDefaultBusinessHours),
      Some([getDefaultBusinessHours EXCEPT !.timezone = 0 - 5 * 60]),
      Some([getDefaultBusinessHours EXCEPT !.holidays = {8, 9}]),
      Some([getDefaultBusinessHours EXCEPT !.holidays = 7..30]),
      \* a closure longer than the maxIterations * maxIterations days searched
      Some([getDefaultBusinessHours EXCEPT !.holidays = 7..220]) }

SchedScheduled ==
    { {}, {[id |-> 0, at |-> StartInstant + 29, n |-> MAX_EMAILS_PER_MINUTE]},
      \* two minutes that each hold four times the cap: Monday 16:30 and
      \* Monday 09:00
      {[id |-> 0, at |-> StartInstant, n |-> 4 * MAX_EMAILS_PER_MINUTE],
       [id |-> 1, at |-> 7 * 24 * 60 + 9 * 60, n |-> 4 * MAX_EMAILS_PER_MINUTE]} }

InitSched ==
    /\ InitSystem
    /\ Len(sequence.steps) = 1 /\ sequence.steps[1].order = 1
    /\ sequence.businessHours = None
    /\ schedIn \in {Some(i) : i \in [currentTime : SchedTimes, step : SchedSteps,
                                     businessHours : SchedBusinessHours,
                                     isDemoMode : BOOLEAN, demo : BOOLEAN,
                                     scheduled : SchedScheduled]}
    /\ schedOut = None

Compute ==
    /\ schedIn # None /\ schedOut = None
    /\ \E t \in calculateNextRun(schedIn[1].currentTime, schedIn[1].step,
                                 schedIn[1].businessHours, schedIn[1].isDemoMode,
                                 schedIn[1].scheduled, schedIn[1].demo) :
          schedOut' = Some(t)
    /\ UNCHANGED << now, sequence, rows, sequenceJobs, launches, batch, emailJobs,
                    jobsDone, tracking, threads, emailEvent, stats, history,
                    handler, schedIn,
                    proc, track, location, monitoring, response,
                    oauth2Client, request, outbox >>

NextSched == Compute

SpecSched == InitSched /\ [][NextSched]_vars

\* ------------------------------------------------------------------ claims
\* What helper.resetSequence leaves in every row.
resetShape ==
    \A c \in Contacts :
        /\ rows'[c].currentStep = 0
        /\ rows'[c].completedAt = None
        /\ rows'[c].status = "pending"

\* C1 - monotonic progress: in every step of the system no row's
\* currentStep decreases and no row's completedAt goes from set to null,
\* unless the step is a reset (which rewrites every row).
C1_MonotonicProgress ==
    [][(\E c \in Contacts :
            \/ rows'[c].currentStep < rows[c].currentStep
            \/ (rows[c].completedAt # None /\ rows'[c].completedAt = None))
        => resetShape]_vars

\* C2 - at most one due scheduling: the email queue never holds two jobs
\* the sweeper enqueued for the same contact and the same step.
C2_AtMostOneDueScheduling ==
    \A i \in 1..Len(emailJobs) : \A j \in 1..Len(emailJobs) :
        (/\ i < j
         /\ emailJobs[i].by = "sweeper" /\ emailJobs[j].by = "sweeper"
         /\ emailJobs[i].contactId = emailJobs[j].contactId)
        => emailJobs[i].step # emailJobs[j].step

\* C3 - race detection: a sweeper execution that comes to a row which has
\* been advanced past the currentStep it observed leaves the row as it is
\* and enqueues nothing.
C3_RaceDetection ==
    [][\A w \in Workers :
          (/\ batch[w] # << >>
           /\ batch'[w] = Tail(batch[w])
           /\ rows[Head(batch[w]).contactId].currentStep > Head(batch[w]).currentStep)
          => (rows' = rows /\ emailJobs' = emailJobs)]_vars

\* A local instant lies inside the business hours: a work day, not a
\* holiday, between workHoursStart and workHoursEnd.
withinBusinessHours(utc, bh) ==
    LET local == utc + bh.timezone
    IN  /\ (weekday(local) % 7) \in bh.workDays
        /\ dayOf(local) \notin bh.holidays
        /\ minuteOfDay(local) >= bh.workHoursStart.hour * 60 + bh.workHoursStart.minute
        /\ minuteOfDay(local) <= bh.workHoursEnd.hour * 60 + bh.workHoursEnd.minute

\* C4 - business-hours containment: with business hours configured and the
\* demo flag off, the instant calculateNextRun returns lies inside the
\* business hours, in the configured timezone.
C4_BusinessHoursContainment ==
    (/\ schedOut # None
     /\ schedIn[1].businessHours # None
     /\ ~schedIn[1].demo)
    => withinBusinessHours(schedOut[1], schedIn[1].businessHours[1])

\* C5 - delay units: for an email step with timing = delay and a
\* delayAmount, scheduled without business hours and outside demo mode, the
\* returned instant is no earlier than now plus delayAmount converted from
\* delayUnit (minutes x1, hours x60, days x1440; minutes when unspecified).
C5_DelayUnits ==
    (/\ schedOut # None
     /\ schedIn[1].step # None
     /\ schedIn[1].businessHours = None
     /\ ~schedIn[1].isDemoMode /\ ~schedIn[1].demo
     /\ schedIn[1].step[1].stepType \in {"manual_email", "automated_email"}
     /\ schedIn[1].step[1].timing = "delay"
     /\ schedIn[1].step[1].delayAmount # 0)
    => LET step == schedIn[1].step[1]
           unit == CASE step.delayUnit = "hours" -> 60
                     [] step.delayUnit = "days" -> 1440
                     [] OTHER -> 1
       IN  schedOut[1] >= schedIn[1].currentTime + step.delayAmount * unit

\* C6 - pause: a sweeper execution whose query ran while the sequence was
\* paused, and which comes to a row while the sequence is still paused,
\* enqueues no email job and changes no row.
C6_PauseSkipsDueRows ==
    [][\A w \in Workers :
          (/\ batch[w] # << >>
           /\ batch'[w] = Tail(batch[w])
           /\ Head(batch[w]).read.sequenceStatus = "paused"
           /\ sequence.status = "paused")
          => (rows' = rows /\ emailJobs' = emailJobs)]_vars

\* C7 - reply short-circuit: a sweeper execution whose query ran after a
\* reply of the contact was ingested (a replied event exists, the row's
\* status was replied) enqueues no email job for that contact.
C7_ReplyShortCircuit ==
    [][\A w \in Workers :
          (/\ batch[w] # << >>
           /\ batch'[w] = Tail(batch[w])
           /\ Head(batch[w]).read.status = "replied"
           /\ eventCount(Head(batch[w]).contactId, "replied") > 0)
          => emailJobs' = emailJobs]_vars

\* C8 - bounce: a sweeper execution whose query ran after a bounce of the
\* contact was ingested (a bounced event exists, the row's status was
\* bounced) enqueues no email job for that contact.
C8_BounceStopsSending ==
    [][\A w \in Workers :
          (/\ batch[w] # << >>
           /\ batch'[w] = Tail(batch[w])
           /\ Head(batch[w]).read.status = "bounced"
           /\ eventCount(Head(batch[w]).contactId, "bounced") > 0)
          => emailJobs' = emailJobs]_vars

\* C9 - reply idempotence: however often the push notification of the one
\* message a contact has sent is ingested, that contact has at most one
\* replied event and the reply statistics count it at most once.
C9_ReplyIdempotence ==
    (\A c \in Contacts :
        Cardinality({m \in history.arrived : m.contactId = c}) <= 1)
    => /\ \A c \in Contacts : eventCount(c, "replied") <= 1
       /\ stats.replied <= Cardinality({c \in Contacts : eventCount(c, "replied") > 0})

\* C10 - guarded status transitions: no step of a push handler changes the
\* status of a row whose status is completed, replied or opted_out.
C10_GuardedStatusTransitions ==
    [][(handler' # handler)
        => \A c \in Contacts :
              rows[c].status \in {"completed", "replied", "opted_out"}
              => rows'[c].status = rows[c].status]_vars

\* C11 - reset purity: a reset leaves every SequenceContact row with
\* currentStep 0, status not_sent and its timestamps null, leaves no
\* tracking row, event or statistics of the sequence, and leaves the
\* sequence in status draft with testMode off.  (startedAt is written only
\* when a row is created, and no SequenceHealth row is written at all.)
C11_ResetPurity ==
    [][(\E userId \in Users : resetSequenceHandler(userId))
        => /\ \A c \in Contacts :
                 /\ rows'[c].currentStep = 0
                 /\ rows'[c].status = "not_sent"
                 /\ rows'[c].lastProcessedAt = None
                 /\ rows'[c].completedAt = None
                 /\ rows'[c].nextScheduledAt = None
           /\ tracking' = {}
           /\ \A c \in Contacts : emailEvent'[c] = NoEvents
           /\ stats' = NoStats
           /\ sequence'.status = "draft"
           /\ sequence'.testMode = FALSE]_vars

\* C12 - completion invariant: for every SequenceContact row, completed is
\* true exactly when status is completed, exactly when completedAt is set,
\* exactly when nextScheduledAt is null; a row that has not been scheduled
\* yet (never processed) has a null nextScheduledAt without being completed.
C12_CompletionInvariant ==
    \A c \in Contacts :
        /\ rows[c].completed <=> (rows[c].status = "completed")
        /\ rows[c].completed <=> (rows[c].completedAt # None)
        /\ rows[c].completed => (rows[c].nextScheduledAt = None)
        /\ (rows[c].nextScheduledAt = None /\ rows[c].lastProcessedAt # None)
              => rows[c].completed

\* C13 - step bound: with no step deleted, every SequenceContact row has
\* 0 <= currentStep <= steps.length, whatever the sequence processor and
\* the sweeper executions do and however they interleave.
C13_StepBound ==
    \A c \in Contacts :
        /\ 0 <= rows[c].currentStep
        /\ rows[c].currentStep <= Len(sequence.steps)

\* A row of a three-step sequence has reached currentStep = steps.length
\* with email jobs of both the sequence processor and the sweeper behind it.
C13_Witness ==
    \E c \in Contacts :
        /\ Len(sequence.steps) = 3
        /\ rows[c].currentStep = Len(sequence.steps)
        /\ \E i \in 1..Len(emailJobs) :
              emailJobs[i].contactId = c /\ emailJobs[i].by = "processor"
        /\ \E i \in 1..Len(emailJobs) :
              emailJobs[i].contactId = c /\ emailJobs[i].by = "sweeper"

\* C14 - completion liveness: when a sweeper execution comes to a due row
\* that is not completed and has currentStep = steps.length, it either
\* leaves the row alone (the rate limit denied) or completes it: completed
\* is true, completedAt is set and nextScheduledAt is null.  This holds for
\* step orders counted from 0 and from 1.
C14_CompletionLiveness ==
    [][\A w \in Workers :
          (/\ batch[w] # << >>
           /\ batch'[w] = Tail(batch[w])
           /\ Head(batch[w]).currentStep = Len(sequence.steps)
           /\ rows[Head(batch[w]).contactId].currentStep = Len(sequence.steps)
           /\ ~rows[Head(batch[w]).contactId].completed
           /\ rows[Head(batch[w]).contactId].nextScheduledAt # None
           /\ rows[Head(batch[w]).contactId].nextScheduledAt[1] <= now)
          => LET c == Head(batch[w]).contactId
             IN  \/ rows'[c] = rows[c]
                 \/ /\ rows'[c].completed
                    /\ rows'[c].completedAt # None
                    /\ rows'[c].nextScheduledAt = None]_vars

\* A launch request was refused.
launchRefused(userId) ==
    \/ ~ownedBy(userId)
    \/ Len(sequence.steps) = 0
    \/ \A c \in Contacts : rows[c].status \in {"completed", "opted_out"}

\* C15 - launch validation: a launch request is answered 404 when userId
\* does not own the sequence and 400 when the sequence has no step or no
\* active contact; in each of these cases the sequence's status and
\* testMode stay as they are, no sequence job is enqueued and monitoring is
\* not started.
C15_LaunchValidation ==
    [][\A userId \in Users, testMode \in BOOLEAN :
          (launchSequenceAnswered(userId, testMode) /\ launchRefused(userId))
          => /\ response' = Some(IF userId # "owner" THEN 404 ELSE 400)
             /\ sequence' = sequence
             /\ sequenceJobs' = sequenceJobs
             /\ monitoring' = monitoring]_vars

\* The owner's launch of a sequence that has steps but no active contact
\* has been answered 400.
C15_Witness ==
    /\ response = Some(400)
    /\ Len(sequence.steps) # 0
    /\ \A c \in Contacts : rows[c].status = "opted_out"
    /\ sequenceJobs = << >>

\* The email jobs enqueued for one contact, in the order they were enqueued.
jobsOf(c) == SelectSeq(emailJobs, LAMBDA j : j.contactId = c)

\* C16 - step ordering end to end: the email jobs the sequence processor
\* and the sweeper enqueue for a contact are one job per step, in strictly
\* increasing step order from step 0 on, no step skipped and none repeated.
C16_StepOrdering ==
    \A c \in Contacts :
        \A k \in 1..Len(jobsOf(c)) : jobsOf(c)[k].step = k - 1

\* C17 - deferred execution: the email worker never starts an email job,
\* whether the sequence processor or the sweeper enqueued it, before the
\* job's scheduledTime.
C17_DeferredExecution ==
    [][\A i \in 1..Len(emailJobs) :
          (i \in jobsDone' /\ i \notin jobsDone)
          => emailJobs[i].scheduledTime <= now]_vars

\* The claim does not say how many rows beyond the cap the jitter may put
\* into one minute; the formula grants a whole further cap.
jitterAllowance == MAX_EMAILS_PER_MINUTE

\* C18 - rate-window distribution: the instant calculateNextRun returns for
\* a row falls in a one-minute bucket that, with this row, holds no more
\* than MAX_EMAILS_PER_MINUTE rows plus the jitter allowance - with and
\* without business hours, whatever the jitter draws are.
C18_RateWindowDistribution ==
    (/\ schedOut # None /\ schedIn[1].step # None
     /\ ~schedIn[1].demo /\ ~schedIn[1].isDemoMode)
    => countScheduled(schedIn[1].scheduled, schedOut[1], schedOut[1] + 1) + 1
          <= MAX_EMAILS_PER_MINUTE + jitterAllowance

\* C19 - thread coherence: the EmailTracking row of every send records the
\* thread id Gmail returned for it; after the first send to a contact the
\* row's threadId is the thread id Gmail returned; and every email job
\* the sweeper enqueues from then on for a step with replyToThread carries
\* exactly that threadId.
C19_ThreadCoherence ==
    [][/\ \A t \in tracking' \ tracking :
             /\ t.threadId = Some(t.returned)
             /\ (\A u \in tracking : u.contactId # t.contactId)
                   => rows'[t.contactId].threadId = Some(t.returned)
       /\ (Len(emailJobs') = Len(emailJobs) + 1)
             => LET job == emailJobs'[Len(emailJobs')]
                IN  (/\ job.by = "sweeper"
                     /\ sequence.steps[job.step + 1].replyToThread
                     /\ \E u \in tracking : u.contactId = job.contactId)
                    => /\ rows[job.contactId].threadId # None
                       /\ job.threadId = rows[job.contactId].threadId]_vars

\* C20 - click rejection: a click request whose lid is absent, or names no
\* TrackedLink of the tracking row with the request's hash, records nothing
\* (LinkClick rows, clickCount and stats unchanged) and is answered with
\* status 400, whatever NODE_ENV is.
C20_ClickRejection ==
    [][\A hash \in RequestHashes, linkId \in RequestLinkIds, NODE_ENV \in NodeEnvs :
          (/\ GET(hash, linkId, NODE_ENV)
           /\ \/ linkId = None
              \/ ~(linkId[1] \in LinkIds /\ linkHash(linkId[1]) = hash))
          => /\ track' = track
             /\ stats' = stats
             /\ response' = Some(400)]_vars

\* C21 - tracking round-trip: a click request that names a TrackedLink and
\* the hash of the tracking row owning it is answered with status 302 and
\* the Location header equal to the link's stored originalUrl, and records
\* exactly one LinkClick, for that link.
C21_TrackingRoundTrip ==
    [][\A l \in LinkIds, NODE_ENV \in NodeEnvs :
          GET(linkHash(l), Some(l), NODE_ENV)
          => /\ response' = Some(302)
             /\ location' = Some(originalUrl(l))
             /\ track'.linkClick = [track.linkClick EXCEPT ![l] = @ + 1]]_vars

\* C23 - self-open filtering: a pixel request for a known hash that comes
\* from a Gmail compose/reply/forward view or from a Google/Gmail backend
\* service is not counted (openCount, openedAt, events and stats unchanged)
\* and is answered 307 with Location equal to the request's own URL; every
\* other pixel request for a known hash is counted, and answered 200 without
\* a Location.
C23_SelfOpenFiltering ==
    [][/\ \A hash \in TrackingHashes, referer \in Referers,
             userAgent \in UserAgents, NODE_ENV \in NodeEnvs :
             GETpixel(hash, referer, userAgent, NODE_ENV)
             => IF \/ isGmailComposeView(referer)
                   \/ isGoogleService(referer, userAgent)
                THEN /\ track' = track
                     /\ stats' = stats
                     /\ response' = Some(307)
                     /\ location' = Some(requestUrl(hash))
                ELSE /\ track'.openCount[hash] = track.openCount[hash] + 1
                     /\ track'.opened[hash] = track.opened[hash] + 1
       /\ \A hash \in TrackingHashes :
             GETpixelRecorded(hash)
             => /\ response' = Some(200)
                /\ location' = None]_vars

C25_TestModeIsolation ==
    [][(sequence.testMode /\ Len(emailJobs') > Len(emailJobs))
          => \A i \in (Len(emailJobs) + 1)..Len(emailJobs') :
                /\ emailJobs'[i].to = "test"
                /\ emailJobs'[i].testMode]_vars

\* C26 - sweeper retry on exception: when processing a due row throws,
\* the row ends with nextScheduledAt = now + retryDelay and the currentStep
\* the tick read, and no email job is enqueued for a step of a contact that
\* a job was already enqueued for.
C26_RetryOnException ==
    [][/\ \A w \in Workers, fault \in Faults :
             processEmailFault(w, fault)
             => LET email == Head(batch[w])
                IN  /\ rows'[email.contactId].nextScheduledAt
                          = Some(now + RETRY_DELAY)
                    /\ rows'[email.contactId].currentStep = email.currentStep
       /\ (Len(emailJobs') = Len(emailJobs) + 1)
             => LET job == emailJobs'[Len(emailJobs')]
                IN  \A i \in 1..Len(emailJobs) :
                       ~(/\ emailJobs[i].contactId = job.contactId
                         /\ emailJobs[i].step = job.step)]_vars

\* C27 - rate-exceeded is a non-error no-op: when the rate-limit check
\* denies a sequence job or one of its contacts, or a due row of the
\* sweeper, no email job is enqueued, no row changes and nothing is thrown
\* (the sequence job is not put back for another attempt), and every row
\* passed over is one the sweeper's next tick takes up: not completed, with
\* a nextScheduledAt.
C27_RateExceededNoOp ==
    [][/\ (processStart /\ proc' = None /\ getActiveSequenceContacts # << >>)
             => /\ UNCHANGED << rows, emailJobs >>
                /\ sequenceJobs' = Tail(sequenceJobs)
                /\ \A i \in 1..Len(getActiveSequenceContacts) :
                      LET c == getActiveSequenceContacts[i]
                      IN  rows[c].nextScheduledAt # None /\ ~rows[c].completed
       /\ (/\ processContact
           /\ proc' = nextContact(proc[1])
           /\ rows[Head(proc[1].contacts).contactId].currentStep
                  < Len(sequence.steps))
             => LET c == Head(proc[1].contacts).contactId
                IN  /\ UNCHANGED << rows, emailJobs, sequenceJobs >>
                    /\ rows[c].nextScheduledAt # None /\ ~rows[c].completed
       /\ \A w \in Workers :
             (processEmail(w) /\ UNCHANGED << rows, emailJobs >>)
             => LET email == Head(batch[w])
                IN  rows[email.contactId].nextScheduledAt = email.nextScheduledAt
                       => email.contactId \in
                             {dueEmails[i] : i \in 1..Len(dueEmails)}
                          \/ rows[email.contactId].completed]_vars

\* C28 - sweeper frame: the rows a tick reads are those that, at the time
\* of the tick, are not completed and have nextScheduledAt <= now; reading
\* changes no row and enqueues nothing; and processing a row of the batch
\* changes no other row and enqueues no job for another contact.  So rows
\* that are completed, have no nextScheduledAt or are scheduled in the
\* future at the tick are left unchanged by it and get no job from it.
C28_SweeperFrame ==
    [][\A w \in Workers :
          /\ (batch[w] = << >> /\ batch'[w] # << >>)
                => /\ UNCHANGED << rows, emailJobs >>
                   /\ \A i \in 1..Len(batch'[w]) :
                         LET c == batch'[w][i].contactId
                         IN  /\ ~rows[c].completed
                             /\ rows[c].nextScheduledAt # None
                             /\ rows[c].nextScheduledAt[1] <= now
                             /\ \A k \in 1..Len(batch'[w]) :
                                   batch'[w][k].contactId = c => k = i
          /\ (batch[w] # << >> /\ batch'[w] = Tail(batch[w]))
                => LET email == Head(batch[w])
                   IN  /\ \A c \in Contacts \ {email.contactId} :
                             rows'[c] = rows[c]
                       /\ \A i \in (Len(emailJobs) + 1)..Len(emailJobs') :
                             emailJobs'[i].contactId = email.contactId]_vars

\* The sweeper has enqueued a job for contact 1, while contact 2, whose row
\* has no nextScheduledAt, has its new row and no job.
C28_Witness ==
    /\ \E i \in 1..Len(emailJobs) :
          emailJobs[i].by = "sweeper" /\ emailJobs[i].contactId = 1
    /\ rows[2] = NewRow
    /\ \A i \in 1..Len(emailJobs) : emailJobs[i].contactId # 2

\* C29 - deleted-step handling: when the sweeper processes a row whose
\* steps[currentStep] is absent and the rate limit allows, it enqueues
\* nothing and either finalises the row (completed, completedAt = now, no
\* nextScheduledAt) when the missing step was the last one, or moves it to
\* currentStep + 1 with nextScheduledAt = now; the row does not stay on the
\* missing step.
C29_DeletedStep ==
    [][\A w \in Workers :
          (/\ batch[w] # << >>
           /\ batch'[w] = Tail(batch[w])
           /\ Head(batch[w]).currentStep >= Len(sequence.steps)
           /\ rows' # rows)
          => LET email == Head(batch[w])
                 c == email.contactId
             IN  /\ emailJobs' = emailJobs
                 /\ IF email.currentStep >= Len(sequence.steps) - 1
                    THEN /\ rows'[c].completed
                         /\ rows'[c].completedAt = Some(now)
                         /\ rows'[c].nextScheduledAt = None
                    ELSE /\ rows'[c].currentStep = email.currentStep + 1
                         /\ rows'[c].nextScheduledAt = Some(now)]_vars

\* C30 - sweeper progress write: after the sweeper has enqueued step i of n,
\* the row has currentStep = i + 1 and lastProcessedAt = now; when i is the
\* last step the row is completed with completedAt = now and no
\* nextScheduledAt, otherwise its nextScheduledAt is an instant the scheduler
\* resolves for the following step i + 1 (that step's timing and delay).
C30_SweeperProgressWrite ==
    [][\A w \in Workers :
          (/\ batch[w] # << >>
           /\ batch'[w] = Tail(batch[w])
           /\ Len(emailJobs') = Len(emailJobs) + 1)
          => LET email == Head(batch[w])
                 c == email.contactId
                 i == email.currentStep
                 steps == sequence.steps
             IN  /\ rows'[c].currentStep = i + 1
                 /\ rows'[c].lastProcessedAt = Some(now)
                 /\ IF i + 1 >= Len(steps)
                    THEN /\ rows'[c].completed
                         /\ rows'[c].completedAt = Some(now)
                         /\ rows'[c].nextScheduledAt = None
                    ELSE \E t \in calculateNextRun(now, Some(steps[i + 2]),
                                      sequence.businessHours, FALSE,
                                      scheduledColumn, FALSE) :
                            rows'[c].nextScheduledAt = Some(t)]_vars

\* C31 - processor failure isolation: once the sequence is loaded and the
\* contact loop runs, an error on one contact does not end the job: process()
\* returns only after the last contact of the job, and the job is not failed
\* (the queue does not get it back for another attempt).
C31_FailureIsolation ==
    [][(proc # None /\ proc' # proc)
          => /\ sequenceJobs' = sequenceJobs
             /\ proc' = None => Len(proc[1].contacts) = 1]_vars

\* C32 - processor completion: when the contact loop reaches a contact whose
\* currentStep is at or past steps.length, no email job is enqueued, the loop
\* goes on with the next contact, the job is not failed, and the contact's
\* row gets status completed with completed = true and completedAt set (or
\* stays as it is when the contact's rate limit was denied before the check).
C32_ProcessorCompletion ==
    [][(/\ proc # None
        /\ proc[1].pc = "progress"
        /\ proc' # proc
        /\ rows[Head(proc[1].contacts).contactId].currentStep >= Len(sequence.steps))
          => LET p == proc[1]
                 c == Head(p.contacts).contactId
             IN  /\ emailJobs' = emailJobs
                 /\ proc' = nextContact(p)
                 /\ sequenceJobs' = sequenceJobs
                 /\ \/ rows' = rows
                    \/ rows' = updateSequenceContactStatus(rows, c, "completed", now)]_vars

\* C33 - scheduler bypass: for a defined step, when no business hours are
\* supplied or a demo flag is set (the isDemoMode argument or the DEMO_MODE
\* environment flag), calculateNextRun returns exactly now + baseDelay, with
\* no business-hours adjustment, and under a demo flag baseDelay is capped
\* at 480 minutes.
C33_SchedulerBypass ==
    (/\ schedOut # None
     /\ schedIn[1].step # None
     /\ \/ schedIn[1].businessHours = None
        \/ schedIn[1].isDemoMode
        \/ schedIn[1].demo)
    => schedOut[1] = schedIn[1].currentTime
                     + calculateBaseDelay(schedIn[1].step[1],
                                          schedIn[1].isDemoMode \/ schedIn[1].demo)

\* C34 - token refresh retry: refreshAccessToken asks the token endpoint at
\* most 3 times; it returns the new access token at the first successful
\* attempt and asks no more; the k-th wait lasts min(1000 * 2^(k-1), 10000)
\* ms and a wait follows a failed attempt only when another attempt
\* follows; after the third failure it throws, having waited twice, and
\* never returns null; and every call of it comes to an end.
C34_TokenRefreshRetry ==
    /\ [](\A u \in AuthUsers :
            LET r == request[u]
            IN  /\ r.tries <= 3
                /\ r.slept = [k \in 1..Len(r.slept) |->
                                 Min(1000 * 2 ^ (k - 1), 10000)]
                /\ r.pc # "null"
                /\ r.result # None
                      => /\ r.result = Some(u)
                         /\ r.tries = r.attempt + 1
                         /\ Len(r.slept) = r.attempt
                /\ (r.result = None /\ r.pc = "refresh")
                      => r.tries = r.attempt /\ Len(r.slept) = r.attempt
                /\ r.pc = "sleep"
                      => /\ r.attempt < 3
                         /\ r.tries = r.attempt
                         /\ Len(r.slept) = r.attempt - 1
                /\ r.pc = "threw"
                      => /\ r.tries = 3
                         /\ r.result = None
                         /\ Len(r.slept) = 2)
    /\ \A u \in AuthUsers :
          (request[u].pc \in {"refresh", "sleep"})
             ~> (request[u].pc \notin {"refresh", "sleep"})

\* User A's refresh succeeded at the third attempt, after waits of 1 s and
\* 2 s, and user B's failed three times.
C34_Witness ==
    /\ request["A"].result = Some("A")
    /\ request["A"].slept = << 1000, 2000 >>
    /\ request["B"].pc = "threw"
    /\ request["B"].slept = << 1000, 2000 >>

\* C35 - credential isolation: every Gmail call a request makes for a user
\* acts on that user's account, whatever the requests of other users do
\* in between.
C35_CredentialIsolation ==
    \A u \in AuthUsers :
       \A i \in 1..Len(request[u].calls) : request[u].calls[i] = u

\* C36 - tracking-hash consistency: for every email the worker sent and
\* recorded, the hash its pixel and link URLs carry is the hash of the
\* EmailTracking row written for that send, so a request for that hash
\* finds that row.
C36_TrackingHashConsistency ==
    \A n \in 1..Len(outbox) :
       (\E t \in tracking : t.job = outbox[n].job)
          => \E t \in tracking :
                t.job = outbox[n].job /\ t.hash = outbox[n].hash

\* C37 - sent-folder rewrite is non-fatal: whenever Gmail has accepted a
\* send, the send counts: the EmailTracking row and the sent event of the
\* job are recorded with it and the job is done, so no job is sent twice.
C37_RewriteNonFatal ==
    /\ \A n \in 1..Len(outbox) :
          /\ \E t \in tracking : t.job = outbox[n].job
          /\ emailEvent[outbox[n].contactId].sent > 0
          /\ outbox[n].job \in jobsDone
    /\ \A n1, n2 \in 1..Len(outbox) :
          outbox[n1].job = outbox[n2].job => n1 = n2

\* C38 - scheduler lower bound: for every now, defined step and
\* business-hours configuration, the instant calculateNextRun returns is
\* never earlier than the initial target now + baseDelay.
C38_SchedulerLowerBound ==
    (schedOut # None /\ schedIn[1].step # None)
    => schedOut[1] >= schedIn[1].currentTime
                      + calculateBaseDelay(schedIn[1].step[1], schedIn[1].isDemoMode)

\* C39 - sweeper per-row isolation: within one execution of the sweep, a
\* row whose processing raises is the only one the execution gives up on:
\* whenever an execution leaves a row, by success or by exception, the rows
\* that follow it in the batch are still there to be processed.
C39_SweeperRowIsolation ==
    [][\A w \in Workers :
          (batch[w] # << >> /\ batch'[w] # batch[w])
             => batch'[w] = Tail(batch[w])]_vars

\* Contact 1's row raised (it has its retry instant and no sweeper job) and
\* contact 2's row, which followed it in the same batch, was processed:
\* its job is in the queue.
C39_Witness ==
    /\ \A w \in Workers : batch[w] = << >>
    /\ rows[1].nextScheduledAt = Some(now + RETRY_DELAY)
    /\ \A i \in 1..Len(emailJobs) :
          emailJobs[i].by = "sweeper" => emailJobs[i].contactId = 2
    /\ \E i \in 1..Len(emailJobs) :
          emailJobs[i].by = "sweeper" /\ emailJobs[i].contactId = 2

\* C40 - ownership gating of control operations: a pause, resume or reset
\* request whose userId does not own the sequence is answered 404 and
\* changes nothing: the sequence's status and testMode, the SequenceContact
\* rows, the tracking rows, events and statistics, the queues and
\* monitoring all stay as they were.
C40_OwnershipGating ==
    [][\A userId \in Users :
          (/\ userId # "owner"
           /\ \/ pauseSequenceAnswered(userId)
              \/ resumeSequenceAnswered(userId)
              \/ resetSequenceAnswered(userId))
          => /\ response' = Some(404)
             /\ UNCHANGED << now, sequence, rows, sequenceJobs, launches, batch,
                             emailJobs, jobsDone, tracking, threads, emailEvent,
                             stats, history, handler, schedIn, schedOut, proc,
                             track, monitoring, location, oauth2Client, request,
                             outbox >>]_vars

\* A request of a user who does not own it has been answered 404 on a
\* running sequence: it is still active and monitored, and every contact
\* still has its progress, its tracking row and its sent event.
C40_Witness ==
    /\ response = Some(404)
    /\ sequence.status = "active"
    /\ monitoring
    /\ \A c \in Contacts :
          /\ rows[c].status = "sent"
          /\ rows[c].currentStep = 1
          /\ emailEvent[c].sent = 1
          /\ \E t \in tracking : t.contactId = c
    /\ stats.sent = NumContacts

====
